---- MODULE Spec2Model ----
(***************************************************************************)
(* Verification model of kjv-sources.                                      *)
(*                                                                         *)
(*   Spec         the reference resolver and its chapter cache             *)
(*                (pkg/kjvcorpus), several concurrent callers              *)
(*   SpecFair     the same under a fair scheduler                           *)
(*   SpecResolve  one caller, every stored chapter shape and verse range   *)
(*   SpecTok      the markup tokenizer (tools/ingest parser) applied to     *)
(*                generated chapter documents                               *)
(*   SpecIngest   an ingestion run (tools/ingest: Run, ProcessBook, the     *)
(*                validator) over small raw directories                     *)
(*   SpecValidate the chapter validator and the chapter builder applied to  *)
(*                file names and extracted chapters                         *)
(*   SpecVerify   a verification run over a canon directory (verify canon)  *)
(*   SpecMains    the mains of the verify and extract tools and the stop     *)
(*                channel                                                   *)
(*   SpecDecode   the entity decoder applied twice to one text              *)
(*   SpecRuns     ingestion runs, one after another, over one output        *)
(*                directory                                                 *)
(***************************************************************************)
EXTENDS Integers, Sequences, FiniteSets, TLC

\* ------------------------------------------------------------------ bounds

\* Largest verse number stored in a generated chapter or asked for in a range.
MaxVerseNum == 3
\* Longest generated verse list and footnote list of a stored chapter.
MaxStored == 2

\* ------------------------------------------------------------- the callers

Callers == {"c1", "c2"}

VARIABLES
  disk,      \* canonical chapter files: cache key -> file state
  cache,     \* Corpus.chapters: cache key -> chapter
  readers,   \* callers holding Corpus.mu for reading
  writer,    \* callers holding Corpus.mu for writing (at most one)
  pc,        \* where each caller stands in Resolve / loadChapter
  ref,       \* the reference each caller resolves
  ch,        \* loadChapter's local chapter of each caller
  result,    \* what Resolve returned to each caller
  did,       \* the steps the caller's current call has taken
  known,     \* the call started after its key had been resolved successfully
  resolved,  \* keys for which a Resolve call has completed successfully
  doc,       \* the markup tree handed to Parser.Parse (html.Parse's output)
  parsed,    \* what Parser.Parse returned for doc
  cli,       \* IngestCLI: --book, --manifest, and whether NewProcessor succeeds
  aliases,   \* aliases.json: OSIS -> chapter key -> file path
  raw,       \* the raw directory: file path -> what is there
  ipc,       \* where IngestCLI.Run stands
  queue,     \* Run's books still to process, the current one first
  pb,        \* ProcessBook's result for the current book, and its loop
  totals,    \* Run's totalProcessed, totalSkipped, totalErrors
  combined,  \* Run's combinedFileMap
  canon,     \* the canonical output directory: path -> chapter written
  filemapFile, \* filemap.json
  ret,       \* what Run returned
  produced,  \* errors produced so far by any unit of the run
  validation, \* one call of the validator and the chapter builder: input, output
  verify,    \* the canon verification run (verify canon)
  decoding,  \* one text, and what decodeHTMLEntities made of it in each run
  history,   \* filemap.json as each earlier ingestion run left it
  stop,      \* the stop channel of the running tool, and where its main stands
  extract    \* the extract tool: its subcommand and where it stands

resolverVars ==
  <<disk, cache, readers, writer, pc, ref, ch, result, did, known, resolved>>
parserVars == <<doc, parsed>>
ingestVars ==
  <<cli, aliases, raw, ipc, queue, pb, totals, combined, canon, filemapFile, ret,
    produced>>
mainVars == <<stop, extract>>
vars ==
  <<resolverVars, parserVars, ingestVars, validation, verify, decoding, history,
    mainVars>>

\* ------------------------------------------------- book metadata (books.json)

\* Corpus.booksByID after Open: OSIS -> Book.
booksByID ==
  [o \in {"Gen", "Ps", "Mal"} |->
     CASE o = "Gen" -> [Name |-> "Genesis", Chapters |-> 2]
       [] o = "Ps"  -> [Name |-> "Psalms", Chapters |-> 1]
       [] OTHER     -> [Name |-> "Malachi", Chapters |-> 1]]

\* ------------------------------------------------------------------ values

NoChapter == [osis |-> "", chapter |-> 0, verses |-> <<>>, footnotes |-> <<>>]
NoRange == [has |-> FALSE, start |-> 0, hasEnd |-> FALSE, end |-> 0]
NoRef == [osis |-> "", chapter |-> 0, verse |-> NoRange]
NoMsg == [text |-> "", osis |-> "", chapter |-> 0, lo |-> 0, hi |-> 0]
NoErr == [kind |-> "", err |-> "", msg |-> NoMsg]
NoResult == [returned |-> FALSE, err |-> NoErr, hasRes |-> FALSE, bookName |-> "",
             chapter |-> NoChapter, verses |-> <<>>, footnotes |-> <<>>]

\* A stored verse: its number and its text (stood for by its place in the file).
mkVerses(ns) == [i \in 1..Len(ns) |-> [v |-> ns[i], plain |-> i]]
\* A stored footnote: its id and the verse number it refers to.
mkFootnotes(as) == [i \in 1..Len(as) |-> [id |-> i, at |-> as[i]]]

SeqsUpTo(S, n) == UNION {[1..k -> S] : k \in 0..n}

\* No document handed to the parser, and no answer from it.
NoDoc == <<>>
NoParse == [done |-> FALSE, err |-> "", ChapterNumber |-> 0,
            Verses |-> <<>>, Footnotes |-> <<>>]
ParserIdle == doc = NoDoc /\ parsed = NoParse

\* util.ProcessResult as ProcessBook builds it, with the chapter keys still to
\* be ranged over, the number of keys listed and the number of files written.
NoBook ==
  [phase |-> "none", abbr |-> <<>>, OSIS |-> "", todo |-> {}, listed |-> 0,
   FilesProcessed |-> 0, FilesSkipped |-> 0, Errors |-> <<>>, FileMap |-> <<>>,
   written |-> 0]
NoTotals == [totalProcessed |-> 0, totalSkipped |-> 0, totalErrors |-> 0]
IngestIdle ==
  /\ cli = [Book |-> <<>>, Manifest |-> FALSE, ProcOK |-> TRUE]
  /\ aliases = <<>> /\ raw = <<>> /\ ipc = "idle" /\ queue = <<>>
  /\ pb = NoBook /\ totals = NoTotals /\ combined = <<>> /\ canon = <<>>
  /\ filemapFile = <<>> /\ ret = "none" /\ produced = 0

\* No validator call and no verification run in progress.
NoValidation == [phase |-> "idle"]
NoVerify == [phase |-> "idle"]
NoDecoding == [phase |-> "idle"]
NoExtract == [phase |-> "idle"]
ToolsIdle ==
  /\ validation = NoValidation /\ verify = NoVerify
  /\ decoding = NoDecoding /\ history = <<>> /\ extract = NoExtract

\* The stop channel: how often close(stop) has been called, and main: not
\* started ("none"), inside or after the command's Run ("running"), returned
\* ("exited"), left by os.Exit(1) ("failed"), ended by the panic of closing a
\* closed channel ("panicked"), or waiting in a receive that nothing will
\* ever complete ("blocked").
NoStop == [closes |-> 0, main |-> "none"]
NewStop == [closes |-> 0, main |-> "running"]

\* ------------------------------------------------------ Corpus.Resolve, pure

\* A plausible slip: the upper chapter bound is compared with >=.
validateUpperStrict(r) ==
  IF r.osis = ""
    THEN [kind |-> "range", err |-> "unknown book",
          msg |-> [NoMsg EXCEPT !.text = "no book specified in reference"]]
  ELSE IF r.osis \notin DOMAIN booksByID
    THEN [kind |-> "range", err |-> "unknown book",
          msg |-> [NoMsg EXCEPT !.text = "unknown book", !.osis = r.osis]]
  ELSE LET book == booksByID[r.osis]
           chapter == IF r.chapter = 0 THEN 1 ELSE r.chapter
       IN IF chapter < 1 \/ chapter >= book.Chapters
            THEN [kind |-> "range", err |-> "chapter not found",
                  msg |-> [text |-> "chapter out of range", osis |-> book.Name,
                           chapter |-> chapter, lo |-> 1, hi |-> book.Chapters]]
            ELSE NoErr

\* CorpusError values returned by Resolve's checks, in the order of the code.
validate(r) ==
  IF r.osis = ""
    THEN [kind |-> "range", err |-> "unknown book",
          msg |-> [NoMsg EXCEPT !.text = "no book specified in reference"]]
  ELSE IF r.osis \notin DOMAIN booksByID
    THEN [kind |-> "range", err |-> "unknown book",
          msg |-> [NoMsg EXCEPT !.text = "unknown book", !.osis = r.osis]]
  ELSE LET book == booksByID[r.osis]
           chapter == IF r.chapter = 0 THEN 1 ELSE r.chapter
       IN IF chapter < 1 \/ chapter > book.Chapters
            THEN [kind |-> "range", err |-> "chapter not found",
                  msg |-> [text |-> "chapter out of range", osis |-> book.Name,
                           chapter |-> chapter, lo |-> 1, hi |-> book.Chapters]]
            ELSE NoErr

\* "If no chapter specified, use chapter 1".
effChapter(r) == IF r.chapter = 0 THEN 1 ELSE r.chapter

\* A plausible slip: the key leaves the chapter number out.
cacheKeyNoChapter(osis, chapter) == <<osis, 1>>

\* loadChapter's cacheKey, fmt.Sprintf("%s:%d", osis, chapter).
cacheKey(osis, chapter) == <<osis, chapter>>

keyOf(r) == cacheKey(r.osis, effChapter(r))
\* The canonical file loadChapter reads: books/<osis>/chNN.json.
pathOf(r) == <<r.osis, effChapter(r)>>

\* A plausible slip: strict comparison at the start of the range.
RECURSIVE extractVersesStrict(_, _)
extractVersesStrict(verses, vr) ==
  IF ~vr.has THEN verses
  ELSE IF verses = <<>> THEN <<>>
  ELSE LET startVerse == vr.start
           endVerse == IF vr.hasEnd THEN vr.end ELSE startVerse
           rest == extractVersesStrict(Tail(verses), vr)
       IN IF Head(verses).v > startVerse /\ Head(verses).v <= endVerse
            THEN <<Head(verses)>> \o rest ELSE rest

\* extractVerses: the loop over chapter.Verses appending the verses in range.
RECURSIVE extractVerses(_, _)
extractVerses(verses, vr) ==
  IF ~vr.has THEN verses
  ELSE IF verses = <<>> THEN <<>>
  ELSE LET startVerse == vr.start
           endVerse == IF vr.hasEnd THEN vr.end ELSE startVerse
           rest == extractVerses(Tail(verses), vr)
       IN IF Head(verses).v >= startVerse /\ Head(verses).v <= endVerse
            THEN <<Head(verses)>> \o rest ELSE rest

\* The verseSet map built from the returned verses.
verseSetOf(verses) == {verses[i].v : i \in 1..Len(verses)}

RECURSIVE collectFootnotes(_, _)
collectFootnotes(fns, verseSet) ==
  IF fns = <<>> THEN <<>>
  ELSE IF Head(fns).at \in verseSet
    THEN <<Head(fns)>> \o collectFootnotes(Tail(fns), verseSet)
    ELSE collectFootnotes(Tail(fns), verseSet)

\* A plausible slip: the verse set is built from the whole chapter.
extractFootnotesAll(chapter, verses) ==
  collectFootnotes(chapter.footnotes, verseSetOf(chapter.verses))

\* extractFootnotes: the chapter's footnotes whose verse is in verseSet.
extractFootnotes(chapter, verses) ==
  IF chapter.footnotes = <<>> THEN <<>>
  ELSE collectFootnotes(chapter.footnotes, verseSetOf(verses))

\* The Resolved value built at the end of Resolve.
mkResolved(r, chapterData) ==
  LET verses == extractVerses(chapterData.verses, r.verse)
  IN [returned |-> TRUE, err |-> NoErr, hasRes |-> TRUE,
      bookName |-> booksByID[r.osis].Name, chapter |-> chapterData,
      verses |-> verses, footnotes |-> extractFootnotes(chapterData, verses)]

mkFailed(e) == [NoResult EXCEPT !.returned = TRUE, !.err = e]

\* A plausible slip: the insert is forgotten.
cacheInsertNothing(c, key, chapter) == c

\* c.chapters[cacheKey] = &ch
cacheInsert(c, key, chapter) ==
  [k \in DOMAIN c \cup {key} |-> IF k = key THEN chapter ELSE c[k]]

\* A plausible slip: a file that does not parse is cached all the same.
loadOutcomeLenient(file) ==
  IF file.st = "missing" THEN "file" ELSE "ok"

\* loadChapter after the miss: os.ReadFile, then json.Unmarshal.
loadOutcome(file) ==
  IF file.st = "missing" THEN "file"
  ELSE IF file.st = "malformed" THEN "parse"
  ELSE "ok"

loadError(outcome) ==
  IF outcome = "file"
    THEN [kind |-> "file", err |-> "chapter not found",
          msg |-> [NoMsg EXCEPT !.text = "failed to read chapter file"]]
    ELSE [kind |-> "parse", err |-> "JSON unmarshal failed",
          msg |-> [NoMsg EXCEPT !.text = "failed to parse chapter file"]]

\* ------------------------------------------------------------ the disk

FileKeys == {<<o, c>> : o \in DOMAIN booksByID, c \in 1..2}

Missing == [st |-> "missing", ch |-> NoChapter]
Malformed == [st |-> "malformed", ch |-> NoChapter]
Stored(o, c, ns, as) ==
  [st |-> "ok",
   ch |-> [osis |-> o, chapter |-> c, verses |-> mkVerses(ns),
           footnotes |-> mkFootnotes(as)]]

\* The corpus of the concurrent specification: two good chapters, a missing
\* file and a file that does not parse.
FixedDisk ==
  [k \in FileKeys |->
     CASE k = <<"Gen", 1>> -> Stored("Gen", 1, <<1, 2, 3>>, <<2, 3>>)
       [] k = <<"Gen", 2>> -> Stored("Gen", 2, <<1, 3>>, <<3, 2>>)
       [] k = <<"Mal", 1>> -> Malformed
       [] OTHER -> Missing]

VerseRanges ==
  {NoRange}
    \cup {[has |-> TRUE, start |-> s, hasEnd |-> FALSE, end |-> 0] : s \in 0..MaxVerseNum}
    \cup {[has |-> TRUE, start |-> s, hasEnd |-> TRUE, end |-> e] :
            s \in 0..MaxVerseNum, e \in 0..MaxVerseNum}

\* References of the concurrent specification.
ConcRefs ==
  {[osis |-> o, chapter |-> c, verse |-> v] :
     o \in {"", "Xyz", "Gen", "Ps", "Mal"}, c \in -1..3,
     v \in {NoRange,
            [has |-> TRUE, start |-> 2, hasEnd |-> FALSE, end |-> 0],
            [has |-> TRUE, start |-> 1, hasEnd |-> TRUE, end |-> 2]}}

\* References of the one-caller specification: Genesis 1, every verse range.
SeqRefs == {[osis |-> "Gen", chapter |-> 1, verse |-> v] : v \in VerseRanges}

\* ------------------------------------------------------------ the actions

\* Resolve up to the call of loadChapter: the checks on the reference.
Begin(p, r) ==
  /\ pc[p] = "idle"
  /\ ref' = [ref EXCEPT ![p] = r]
  /\ did' = [did EXCEPT ![p] = {}]
  /\ ch' = [ch EXCEPT ![p] = NoChapter]
  /\ IF validate(r) # NoErr
       THEN /\ pc' = [pc EXCEPT ![p] = "done"]
            /\ result' = [result EXCEPT ![p] = mkFailed(validate(r))]
            /\ known' = [known EXCEPT ![p] = FALSE]
       ELSE /\ pc' = [pc EXCEPT ![p] = "rlock"]
            /\ result' = [result EXCEPT ![p] = NoResult]
            /\ known' = [known EXCEPT ![p] = keyOf(r) \in resolved]
  /\ UNCHANGED <<disk, cache, readers, writer, resolved>>
  /\ UNCHANGED <<parserVars, ingestVars, validation, verify, decoding, history, mainVars>>

\* c.mu.RLock()
RLock(p) ==
  /\ pc[p] = "rlock"
  /\ writer = {}
  /\ readers' = readers \cup {p}
  /\ pc' = [pc EXCEPT ![p] = "lookup"]
  /\ UNCHANGED <<disk, cache, writer, ref, ch, result, did, known, resolved>>
  /\ UNCHANGED <<parserVars, ingestVars, validation, verify, decoding, history, mainVars>>

\* A lookup that gives the read lock back on a hit only.
LookupKeepsLock(p) ==
  /\ pc[p] = "lookup"
  /\ did' = [did EXCEPT ![p] = @ \cup {"lookup"}]
  /\ IF keyOf(ref[p]) \in DOMAIN cache
       THEN /\ ch' = [ch EXCEPT ![p] = cache[keyOf(ref[p])]]
            /\ pc' = [pc EXCEPT ![p] = "extract"]
            /\ readers' = readers \ {p}
       ELSE /\ ch' = ch
            /\ pc' = [pc EXCEPT ![p] = "read"]
            /\ readers' = readers
  /\ UNCHANGED <<disk, cache, writer, ref, result, known, resolved>>
  /\ UNCHANGED <<parserVars, ingestVars, validation, verify, decoding, history, mainVars>>

\* The cache lookup under the read lock, and c.mu.RUnlock() on either branch.
Lookup(p) ==
  /\ pc[p] = "lookup"
  /\ readers' = readers \ {p}
  /\ did' = [did EXCEPT ![p] = @ \cup {"lookup"}]
  /\ IF keyOf(ref[p]) \in DOMAIN cache
       THEN /\ ch' = [ch EXCEPT ![p] = cache[keyOf(ref[p])]]
            /\ pc' = [pc EXCEPT ![p] = "extract"]
       ELSE /\ ch' = ch
            /\ pc' = [pc EXCEPT ![p] = "read"]
  /\ UNCHANGED <<disk, cache, writer, ref, result, known, resolved>>
  /\ UNCHANGED <<parserVars, ingestVars, validation, verify, decoding, history, mainVars>>

\* os.ReadFile and json.Unmarshal, no lock held.
ReadFile(p) ==
  /\ pc[p] = "read"
  /\ did' = [did EXCEPT ![p] = @ \cup {"read"}]
  /\ LET outcome == loadOutcome(disk[pathOf(ref[p])])
     IN IF outcome = "ok"
          THEN /\ ch' = [ch EXCEPT ![p] = disk[pathOf(ref[p])].ch]
               /\ pc' = [pc EXCEPT ![p] = "lock"]
               /\ result' = result
          ELSE /\ ch' = ch
               /\ pc' = [pc EXCEPT ![p] = "done"]
               /\ result' = [result EXCEPT ![p] = mkFailed(loadError(outcome))]
  /\ UNCHANGED <<disk, cache, readers, writer, ref, known, resolved>>
  /\ UNCHANGED <<parserVars, ingestVars, validation, verify, decoding, history, mainVars>>

\* A write lock handed out while readers still hold the lock.
LockOverReaders(p) ==
  /\ pc[p] = "lock"
  /\ writer = {}
  /\ writer' = {p}
  /\ pc' = [pc EXCEPT ![p] = "insert"]
  /\ UNCHANGED <<disk, cache, readers, ref, ch, result, did, known, resolved>>
  /\ UNCHANGED <<parserVars, ingestVars, validation, verify, decoding, history, mainVars>>

\* c.mu.Lock()
Lock(p) ==
  /\ pc[p] = "lock"
  /\ writer = {} /\ readers = {}
  /\ writer' = {p}
  /\ pc' = [pc EXCEPT ![p] = "insert"]
  /\ UNCHANGED <<disk, cache, readers, ref, ch, result, did, known, resolved>>
  /\ UNCHANGED <<parserVars, ingestVars, validation, verify, decoding, history, mainVars>>

\* An insertion that returns without c.mu.Unlock().
InsertKeepsLock(p) ==
  /\ pc[p] = "insert"
  /\ cache' = cacheInsert(cache, keyOf(ref[p]), ch[p])
  /\ did' = [did EXCEPT ![p] = @ \cup {"insert"}]
  /\ pc' = [pc EXCEPT ![p] = "extract"]
  /\ UNCHANGED <<disk, readers, writer, ref, ch, result, known, resolved>>
  /\ UNCHANGED <<parserVars, ingestVars, validation, verify, decoding, history, mainVars>>

\* c.chapters[cacheKey] = &ch; c.mu.Unlock()
Insert(p) ==
  /\ pc[p] = "insert"
  /\ cache' = cacheInsert(cache, keyOf(ref[p]), ch[p])
  /\ writer' = writer \ {p}
  /\ did' = [did EXCEPT ![p] = @ \cup {"insert"}]
  /\ pc' = [pc EXCEPT ![p] = "extract"]
  /\ UNCHANGED <<disk, readers, ref, ch, result, known, resolved>>
  /\ UNCHANGED <<parserVars, ingestVars, validation, verify, decoding, history, mainVars>>

\* Back in Resolve: extractVerses, extractFootnotes, return &Resolved{...}.
Extract(p) ==
  /\ pc[p] = "extract"
  /\ result' = [result EXCEPT ![p] = mkResolved(ref[p], ch[p])]
  /\ resolved' = resolved \cup {keyOf(ref[p])}
  /\ pc' = [pc EXCEPT ![p] = "done"]
  /\ UNCHANGED <<disk, cache, readers, writer, ref, ch, did, known>>
  /\ UNCHANGED <<parserVars, ingestVars, validation, verify, decoding, history, mainVars>>

\* The caller has its answer and may call again.
Return(p) ==
  /\ pc[p] = "done"
  /\ pc' = [pc EXCEPT ![p] = "idle"]
  /\ result' = [result EXCEPT ![p] = NoResult]
  /\ ref' = [ref EXCEPT ![p] = NoRef]
  /\ ch' = [ch EXCEPT ![p] = NoChapter]
  /\ did' = [did EXCEPT ![p] = {}]
  /\ known' = [known EXCEPT ![p] = FALSE]
  /\ UNCHANGED <<disk, cache, readers, writer, resolved>>
  /\ UNCHANGED <<parserVars, ingestVars, validation, verify, decoding, history, mainVars>>

InitCallers ==
  /\ cache = <<>>
  /\ readers = {}
  /\ writer = {}
  /\ pc = [p \in Callers |-> "idle"]
  /\ ref = [p \in Callers |-> NoRef]
  /\ ch = [p \in Callers |-> NoChapter]
  /\ result = [p \in Callers |-> NoResult]
  /\ did = [p \in Callers |-> {}]
  /\ known = [p \in Callers |-> FALSE]
  /\ resolved = {}

\* The state after Open: metadata loaded, cache empty.
Init ==
  /\ disk = FixedDisk
  /\ InitCallers
  /\ ParserIdle /\ IngestIdle /\ ToolsIdle /\ stop = NoStop

Next ==
  \E p \in Callers :
    \/ \E r \in ConcRefs : Begin(p, r)
    \/ RLock(p)
    \/ Lookup(p)
    \/ ReadFile(p)
    \/ Lock(p)
    \/ Insert(p)
    \/ Extract(p)
    \/ Return(p)

Spec == Init /\ [][Next]_vars

\* The scheduler is fair: a goroutine that can take its next step takes it.
\* sync.RWMutex starves neither side: a pending Lock keeps new readers out
\* until the writer has had the lock, and readers waiting for a writer are let
\* in when it unlocks; so a caller waiting for the lock gets it if the lock
\* becomes free again and again.  Callers need not call again.
Fairness ==
  \A p \in Callers :
    /\ SF_vars(RLock(p)) /\ SF_vars(Lock(p))
    /\ WF_vars(Lookup(p)) /\ WF_vars(ReadFile(p))
    /\ WF_vars(Insert(p)) /\ WF_vars(Extract(p))

SpecFair == Init /\ [][Next]_vars /\ Fairness

\* One caller; the stored chapter Genesis 1 is any verse list and footnote list
\* within the bounds.
InitResolve ==
  /\ \E ns \in SeqsUpTo(1..MaxVerseNum, MaxStored),
        as \in SeqsUpTo(0..MaxVerseNum, MaxStored) :
       disk = [FixedDisk EXCEPT ![<<"Gen", 1>>] = Stored("Gen", 1, ns, as)]
  /\ InitCallers
  /\ ParserIdle /\ IngestIdle /\ ToolsIdle /\ stop = NoStop

NextResolve ==
  \/ \E r \in SeqRefs : Begin("c1", r)
  \/ RLock("c1")
  \/ Lookup("c1")
  \/ ReadFile("c1")
  \/ Lock("c1")
  \/ Insert("c1")
  \/ Extract("c1")
  \/ Return("c1")

SpecResolve == InitResolve /\ [][NextResolve]_vars

\* ------------------------------------------------- the parser: strings
\* A string is the sequence of its characters, each a one-character string.

\* regexp `\s`: [\t\n\f\r ].
IsReSpace(c) == c \in {" ", "\t", "\n", "\f", "\r"}
\* unicode.IsSpace: '\t', '\n', '\v', '\f', '\r', ' ', U+0085, U+00A0 and the
\* characters with the White_Space property.  The vertical tab, U+0085, the
\* no-break space U+00A0 and U+1680 have no escape in a TLA+ string and are
\* written as the characters themselves; the White_Space characters from
\* U+2000 on, which a TLA+ string cannot hold, are spelled by their code points.
IsSpace(c) ==
  LET VT == ""
      NEL == ""
      NBSP == " "
      OghamSpace == " "
  IN c \in {" ", "\t", "\n", VT, "\f", "\r", NEL, NBSP, OghamSpace,
            "U+2000", "U+2001", "U+2002", "U+2003", "U+2004", "U+2005",
            "U+2006", "U+2007", "U+2008", "U+2009", "U+200A", "U+2028",
            "U+2029", "U+202F", "U+205F", "U+3000"}
IsDigit(c) == c \in {"0", "1", "2", "3", "4", "5", "6", "7", "8", "9"}

digitVal(c) ==
  CASE c = "0" -> 0 [] c = "1" -> 1 [] c = "2" -> 2 [] c = "3" -> 3 [] c = "4" -> 4
    [] c = "5" -> 5 [] c = "6" -> 6 [] c = "7" -> 7 [] c = "8" -> 8 [] OTHER -> 9

RECURSIVE digitsVal(_, _)
digitsVal(s, acc) ==
  IF s = <<>> THEN acc ELSE digitsVal(Tail(s), 10 * acc + digitVal(Head(s)))

AllDigits(s) == s # <<>> /\ \A i \in 1..Len(s) : IsDigit(s[i])

\* strconv.Atoi: an optional sign and decimal digits, anything else a syntax
\* error; digits whose value does not fit the 64-bit int are a range error.
\* Fewer than 19 digits always fit (Atoi's fast path); longer ones are compared
\* with the limit digit by digit, leading zeros aside.
Atoi(s) ==
  LET signed == s # <<>> /\ Head(s) \in {"+", "-"}
      negative == signed /\ Head(s) = "-"
      digits == IF signed THEN Tail(s) ELSE s
      limit == <<"9", "2", "2", "3", "3", "7", "2", "0", "3", "6", "8", "5", "4",
                 "7", "7", "5", "8", "0", IF negative THEN "8" ELSE "7">>
      zeros == Cardinality({i \in 1..Len(digits) : \A j \in 1..i : digits[j] = "0"})
      value == SubSeq(digits, zeros + 1, Len(digits))
      above == \E i \in 1..Len(limit) :
                 /\ digitVal(value[i]) > digitVal(limit[i])
                 /\ \A j \in 1..(i - 1) : value[j] = limit[j]
      inRange == \/ Len(digits) < Len(limit)
                 \/ Len(value) < Len(limit)
                 \/ (Len(value) = Len(limit) /\ ~above)
  IN IF AllDigits(digits) /\ inRange
       THEN [ok |-> TRUE,
             num |-> IF negative THEN 0 - digitsVal(digits, 0) ELSE digitsVal(digits, 0)]
       ELSE [ok |-> FALSE, num |-> 0]

\* The digits of 2^63, the first number past the int.
OutOfRange ==
  <<"9", "2", "2", "3", "3", "7", "2", "0", "3", "6", "8", "5", "4", "7", "7", "5",
    "8", "0", "8">>

RECURSIVE trimLeft(_)
trimLeft(s) ==
  IF s # <<>> /\ IsSpace(Head(s)) THEN trimLeft(Tail(s)) ELSE s

RECURSIVE trimRight(_)
trimRight(s) ==
  IF s # <<>> /\ IsSpace(s[Len(s)]) THEN trimRight(SubSeq(s, 1, Len(s) - 1)) ELSE s

\* strings.TrimSpace
TrimSpace(s) == trimRight(trimLeft(s))

RECURSIVE dropReSpace(_)
dropReSpace(s) ==
  IF s # <<>> /\ IsReSpace(Head(s)) THEN dropReSpace(Tail(s)) ELSE s

\* regexp.MustCompile(`\s+`).ReplaceAllString(text, " ")
RECURSIVE collapseSpace(_)
collapseSpace(s) ==
  IF s = <<>> THEN <<>>
  ELSE IF IsReSpace(Head(s)) THEN <<" ">> \o collapseSpace(dropReSpace(Tail(s)))
  ELSE <<Head(s)>> \o collapseSpace(Tail(s))

HasPrefix(s, prefix) ==
  Len(s) >= Len(prefix) /\ SubSeq(s, 1, Len(prefix)) = prefix

\* strings.ReplaceAll for a non-empty old string.
RECURSIVE ReplaceAll(_, _, _)
ReplaceAll(s, old, new) ==
  IF Len(s) < Len(old) THEN s
  ELSE IF HasPrefix(s, old)
    THEN new \o ReplaceAll(SubSeq(s, Len(old) + 1, Len(s)), old, new)
  ELSE <<Head(s)>> \o ReplaceAll(Tail(s), old, new)

\* The first field of strings.FieldsFunc(text, ' ' | '\n' | '\t'), <<>> if none.
RECURSIVE dropField(_)
dropField(s) ==
  IF s # <<>> /\ Head(s) \in {" ", "\n", "\t"} THEN dropField(Tail(s)) ELSE s

RECURSIVE takeField(_)
takeField(s) ==
  IF s = <<>> \/ Head(s) \in {" ", "\n", "\t"} THEN <<>>
  ELSE <<Head(s)>> \o takeField(Tail(s))

firstField(s) == takeField(dropField(s))

\* The named entities of decodeHTMLEntities' replacements table.
replacements ==
  << <<<<"&", "#", "1", "6", "0", ";">>, <<" ">>>>,
     <<<<"&", "n", "b", "s", "p", ";">>, <<" ">>>>,
     <<<<"&", "a", "m", "p", ";">>, <<"&">>>>,
     <<<<"&", "l", "t", ";">>, <<"<">>>>,
     <<<<"&", "g", "t", ";">>, <<">">>>>,
     <<<<"&", "q", "u", "o", "t", ";">>, <<"\"">>>>,
     <<<<"&", "a", "p", "o", "s", ";">>, <<"'">>>> >>

\* The orders in which a range over the table, a Go map, can visit it: the
\* order differs from run to run and from call to call.
RangeOrders == Permutations(1..Len(replacements))

\* "for entity, replacement := range replacements": strings.ReplaceAll for one
\* entry after the other, in the order the range visits them.
RECURSIVE replaceNamed(_, _, _)
replaceNamed(s, order, i) ==
  IF i > Len(order) THEN s
  ELSE replaceNamed(
         ReplaceAll(s, replacements[order[i]][1], replacements[order[i]][2]),
         order, i + 1)

\* The characters with the codes 0 to 127, in order.  U+0000 and the grave
\* accent U+0060 are spelled by their code points (the first would make this
\* module a binary file, the second cannot stand in a TLA+ string); every
\* other one is the character itself.
Ascii ==
  <<"U+0000", "", "", "", "", "", "", "",
     "", "\t", "\n", "", "\f", "\r", "", "",
     "", "", "", "", "", "", "", "",
     "", "", "", "", "", "", "", "",
     " ", "!", "\"", "#", "$", "%", "&", "'",
     "(", ")", "*", "+", ",", "-", ".", "/",
     "0", "1", "2", "3", "4", "5", "6", "7",
     "8", "9", ":", ";", "<", "=", ">", "?",
     "@", "A", "B", "C", "D", "E", "F", "G",
     "H", "I", "J", "K", "L", "M", "N", "O",
     "P", "Q", "R", "S", "T", "U", "V", "W",
     "X", "Y", "Z", "[", "\\", "]", "^", "_",
     "U+0060", "a", "b", "c", "d", "e", "f", "g",
     "h", "i", "j", "k", "l", "m", "n", "o",
     "p", "q", "r", "s", "t", "u", "v", "w",
     "x", "y", "z", "{", "|", "}", "~", "">>

\* string(rune(num)), for num < 128.
runeOf(num) == Ascii[num + 1]

RECURSIVE takeDigits(_)
takeDigits(s) ==
  IF s # <<>> /\ IsDigit(Head(s)) THEN <<Head(s)>> \o takeDigits(Tail(s)) ELSE <<>>

\* The digits of the matches of `&#(\d+);` in s, left to right.
RECURSIVE numericMatches(_)
numericMatches(s) ==
  IF Len(s) < 4 THEN <<>>
  ELSE LET ds == takeDigits(SubSeq(s, 3, Len(s)))
       IN IF /\ s[1] = "&" /\ s[2] = "#" /\ ds # <<>>
             /\ Len(s) >= Len(ds) + 3 /\ s[Len(ds) + 3] = ";"
            THEN <<ds>> \o numericMatches(SubSeq(s, Len(ds) + 4, Len(s)))
            ELSE numericMatches(Tail(s))

\* One round of the loop: every match whose number is below 128 is replaced,
\* wherever it occurs, by its character.
RECURSIVE replaceMatches(_, _, _)
replaceMatches(s, matches, i) ==
  IF i > Len(matches) THEN s
  ELSE LET num == digitsVal(matches[i], 0)
       IN replaceMatches(
            IF num < 128
              THEN ReplaceAll(s, <<"&", "#">> \o matches[i] \o <<";">>, <<runeOf(num)>>)
              ELSE s,
            matches, i + 1)

\* The "numeric entities" loop: at most ten rounds, ended by a round that
\* finds no match.
RECURSIVE decodeNumeric(_, _)
decodeNumeric(s, rounds) ==
  IF rounds = 0 \/ numericMatches(s) = <<>> THEN s
  ELSE decodeNumeric(replaceMatches(s, numericMatches(s), 1), rounds - 1)

\* decodeHTMLEntities, the range visiting the table in the given order: the
\* table, then the numeric entities.
decodeHTMLEntities(s, order) == decodeNumeric(replaceNamed(s, order, 1), 10)

\* Orders that tell the results of a range apart.  Of the replacements only
\* "&" (for "&amp;") can begin an entity, and no two entities overlap, so the
\* entries other than "&amp;" commute, and what a range returns is decided by
\* the set of entries it visits after "&amp;": one order for each such set.
AmpOrders ==
  LET AmpEntry ==
        CHOOSE k \in 1..Len(replacements) :
          replacements[k][1] = <<"&", "a", "m", "p", ";">>
      OtherEntries ==
        [k \in 1..(Len(replacements) - 1) |-> IF k < AmpEntry THEN k ELSE k + 1]
  IN {SelectSeq(OtherEntries, LAMBDA k : k \notin after) \o <<AmpEntry>>
        \o SelectSeq(OtherEntries, LAMBDA k : k \in after) :
          after \in SUBSET {OtherEntries[k] : k \in 1..Len(OtherEntries)}}

\* The orders a call of decodeHTMLEntities(s) is followed through: on a text
\* without "&amp;" every order gives the same result, and the orders that
\* visit "&amp;" last stand for all.
VisitOrders(s) ==
  LET amp == <<"&", "a", "m", "p", ";">>
      HasAmp == \E i \in 1..(Len(s) - Len(amp) + 1) : SubSeq(s, i, i + Len(amp) - 1) = amp
  IN IF HasAmp THEN AmpOrders
     ELSE {order \in AmpOrders : order[Len(order)] \in {k \in 1..Len(replacements) :
                                                         replacements[k][1] = amp}}

\* Every result a call of decodeHTMLEntities(s) can return.
decodeResults(s) == {decodeHTMLEntities(s, order) : order \in VisitOrders(s)}

\* cleanVerseText: collapse, trim, decode; every result the call can return.
cleanVerseText(text) == decodeResults(TrimSpace(collapseSpace(text)))

\* cleanVerseTextNoTrim: collapse, decode, boundary spaces kept; every result
\* the call can return.
cleanVerseTextNoTrim(text) == decodeResults(collapseSpace(text))

\* --------------------------------------------------- the parser: the tree
\* html.Node as the parser reads it: Type, Data (tag or text), the class, id
\* and href attributes, and the children in order.  A class attribute is held
\* as the list of its space-separated names.

TextNode(s) ==
  [type |-> "text", tag |-> "", class |-> <<>>, id |-> "", href |-> <<>>,
   text |-> s, kids |-> <<>>]
Element(tag, class, kids) ==
  [type |-> "elem", tag |-> tag, class |-> class, id |-> "", href |-> <<>>,
   text |-> <<>>, kids |-> kids]
ElementWith(tag, class, id, href, kids) ==
  [type |-> "elem", tag |-> tag, class |-> class, id |-> id, href |-> href,
   text |-> <<>>, kids |-> kids]

\* hasClass: className is one of the names in the node's class attribute.
hasClass(node, className) ==
  \E i \in 1..Len(node.class) : node.class[i] = className

\* attr.Key == "class" && attr.Val == val, for a one-name val.
classIs(node, val) == node.class = <<val>>

\* <span class="verse">
isVerseSpan(node) ==
  node.type = "elem" /\ node.tag = "span" /\ classIs(node, "verse")

\* <a class="notemark">
isNoteMark(node) ==
  node.type = "elem" /\ node.tag = "a" /\ hasClass(node, "notemark")

\* getTextContent: the text nodes under n, in document order.
RECURSIVE getTextContent(_)
RECURSIVE textOfNodes(_, _)
getTextContent(n) ==
  IF n.type = "text" THEN n.text ELSE textOfNodes(n.kids, 1)
textOfNodes(nodes, i) ==
  IF i > Len(nodes) THEN <<>>
  ELSE getTextContent(nodes[i]) \o textOfNodes(nodes, i + 1)

\* extractVersePlainText's loop from sibling j on, plainText accumulated so
\* far: every text the call can return (one for each result of the decoding).
RECURSIVE plainTextFrom(_, _, _)
plainTextFrom(sibs, j, plainText) ==
  IF j > Len(sibs) THEN cleanVerseText(plainText)
  ELSE LET node == sibs[j]
       IN IF isVerseSpan(node) THEN cleanVerseText(plainText)
          ELSE IF node.type = "text"
            THEN plainTextFrom(sibs, j + 1, plainText \o node.text)
          ELSE IF isNoteMark(node)
            THEN plainTextFrom(sibs, j + 1, plainText)
          ELSE plainTextFrom(sibs, j + 1, plainText \o getTextContent(node))

\* extractVersePlainText(verseSpan), the span being child i of its parent.
extractVersePlainText(sibs, i) == plainTextFrom(sibs, i + 1, <<>>)

NoText == <<>>
TextToken(s) == [Text |-> s, Add |-> NoText, ND |-> NoText]
AddToken(s) == [Text |-> NoText, Add |-> s, ND |-> NoText]
NDToken(s) == [Text |-> NoText, Add |-> NoText, ND |-> s]

\* "Flush current text": a Text token unless the cleaned text is empty; every
\* token list the flush can leave.
flush(tokens, currentText) ==
  IF Len(currentText) > 0
    THEN {IF text # <<>> THEN Append(tokens, TextToken(text)) ELSE tokens :
            text \in cleanVerseTextNoTrim(currentText)}
    ELSE {tokens}

\* extractTokensFromNode's loop over the children of a node, from child j on:
\* every token list it can return.
RECURSIVE childTokensFrom(_, _, _, _)
childTokensFrom(kids, j, tokens, currentText) ==
  IF j > Len(kids) THEN flush(tokens, currentText)
  ELSE LET child == kids[j]
       IN IF child.type = "text"
            THEN childTokensFrom(kids, j + 1, tokens, currentText \o child.text)
          ELSE IF hasClass(child, "add")
            THEN UNION {childTokensFrom(kids, j + 1,
                          Append(flushed, AddToken(getTextContent(child))), <<>>) :
                        flushed \in flush(tokens, currentText)}
          ELSE IF hasClass(child, "nd")
            THEN UNION {childTokensFrom(kids, j + 1,
                          Append(flushed, NDToken(getTextContent(child))), <<>>) :
                        flushed \in flush(tokens, currentText)}
          ELSE IF isNoteMark(child)
            THEN childTokensFrom(kids, j + 1, tokens, currentText)
          ELSE UNION {childTokensFrom(kids, j + 1, tokens \o childTokens, currentText) :
                      childTokens \in childTokensFrom(child.kids, 1, <<>>, <<>>)}

extractTokensFromNode(node) == childTokensFrom(node.kids, 1, <<>>, <<>>)

\* extractVerseTokens' loop over the siblings after the verse span: every
\* token list it can return.
RECURSIVE verseTokensFrom(_, _, _, _)
verseTokensFrom(sibs, j, tokens, currentText) ==
  IF j > Len(sibs) THEN flush(tokens, currentText)
  ELSE LET node == sibs[j]
       IN IF isVerseSpan(node) THEN flush(tokens, currentText)
          ELSE IF node.type = "text"
            THEN verseTokensFrom(sibs, j + 1, tokens, currentText \o node.text)
          ELSE IF hasClass(node, "add")
            THEN UNION {verseTokensFrom(sibs, j + 1,
                          Append(flushed, AddToken(getTextContent(node))), <<>>) :
                        flushed \in flush(tokens, currentText)}
          ELSE IF hasClass(node, "nd")
            THEN UNION {verseTokensFrom(sibs, j + 1,
                          Append(flushed, NDToken(getTextContent(node))), <<>>) :
                        flushed \in flush(tokens, currentText)}
          ELSE IF isNoteMark(node)
            THEN verseTokensFrom(sibs, j + 1, tokens, currentText)
          ELSE UNION {verseTokensFrom(sibs, j + 1, flushed \o nodeTokens, <<>>) :
                      flushed \in flush(tokens, currentText),
                      nodeTokens \in extractTokensFromNode(node)}

\* extractVerseTokens(verseSpan), the span being child i of its parent.
extractVerseTokens(sibs, i) == verseTokensFrom(sibs, i + 1, <<>>, <<>>)

\* verseMap[num] = &ExtractedVerse{...}
putVerse(verseMap, num, verse) ==
  [n \in DOMAIN verseMap \cup {num} |-> IF n = num THEN verse ELSE verseMap[n]]

\* What walk does at one node: a verse span whose first field is a number
\* enters the map under that number; every map the visit can leave.
visitVerse(sibs, i, verseMap) ==
  IF isVerseSpan(sibs[i])
    THEN LET num == Atoi(firstField(TrimSpace(getTextContent(sibs[i]))))
         IN IF firstField(TrimSpace(getTextContent(sibs[i]))) # <<>> /\ num.ok
              THEN {putVerse(verseMap, num.num,
                      [Number |-> num.num, Plain |-> plain, Tokens |-> tokens]) :
                    plain \in extractVersePlainText(sibs, i),
                    tokens \in extractVerseTokens(sibs, i)}
              ELSE {verseMap}
    ELSE {verseMap}

\* extractVerses' walk: document order, each node before its children; every
\* map the walk can end with.
RECURSIVE walkVerses(_, _, _)
walkVerses(sibs, i, verseMap) ==
  IF i > Len(sibs) THEN {verseMap}
  ELSE UNION {walkVerses(sibs, i + 1, below) :
              below \in UNION {walkVerses(sibs[i].kids, 1, visited) :
                               visited \in visitVerse(sibs, i, verseMap)}}

\* "Convert map to sorted slice": for num := 1; num <= len(verseMap); num++.
RECURSIVE sortedVerses(_, _)
sortedVerses(verseMap, num) ==
  IF num > Cardinality(DOMAIN verseMap) THEN <<>>
  ELSE IF num \in DOMAIN verseMap
    THEN <<verseMap[num]>> \o sortedVerses(verseMap, num + 1)
  ELSE sortedVerses(verseMap, num + 1)

\* Parser.extractVerses on the children of the document node: every verse
\* list it can return.
parserExtractVerses(nodes) ==
  {sortedVerses(verseMap, 1) : verseMap \in walkVerses(nodes, 1, <<>>)}

\* extractChapterNumber's walk: the first <div class='chapterlabel'> in
\* document order whose trimmed text is a number.
RECURSIVE findChapterNumber(_, _)
findChapterNumber(nodes, i) ==
  IF i > Len(nodes) THEN [found |-> FALSE, chapter |-> 0]
  ELSE LET n == nodes[i]
           text == TrimSpace(getTextContent(n))
           here == /\ n.type = "elem" /\ n.tag = "div" /\ classIs(n, "chapterlabel")
                   /\ text # <<>> /\ Atoi(text).ok
           below == findChapterNumber(n.kids, 1)
       IN IF here THEN [found |-> TRUE, chapter |-> Atoi(text).num]
          ELSE IF below.found THEN below
          ELSE findChapterNumber(nodes, i + 1)

extractChapterNumber(nodes) == findChapterNumber(nodes, 1)

\* parseFootnoteParagraph's loop over the children of <p class="f">: every
\* footnote it can end with.
RECURSIVE footnoteFields(_, _, _)
footnoteFields(kids, j, fn) ==
  IF j > Len(kids) THEN {fn}
  ELSE LET child == kids[j]
           verseStr == SubSeq(child.href, 3, Len(child.href))
       IN UNION {footnoteFields(kids, j + 1, next) :
            next \in
              IF child.type # "elem" THEN {fn}
              ELSE IF child.tag = "span" /\ hasClass(child, "notemark")
                THEN {[fn EXCEPT !.Mark = getTextContent(child)]}
              ELSE IF child.tag = "span" /\ hasClass(child, "ft")
                THEN {[fn EXCEPT !.Text = text] :
                        text \in cleanVerseText(getTextContent(child))}
              ELSE IF /\ child.tag = "a" /\ hasClass(child, "notebackref")
                      /\ HasPrefix(child.href, <<"#", "V">>) /\ Atoi(verseStr).ok
                THEN {[fn EXCEPT !.VerseNum = Atoi(verseStr).num]}
              ELSE {fn}}

\* parseFootnoteParagraph: the footnote, or nothing (nil) when the id, the mark
\* or the text is missing; every result, as a list of no or one footnote.
parseFootnoteParagraph(paraNode) ==
  {IF paraNode.id = "" \/ fn.Mark = <<>> \/ fn.Text = <<>> THEN <<>> ELSE <<fn>> :
     fn \in footnoteFields(paraNode.kids, 1,
               [ID |-> paraNode.id, Mark |-> <<>>, VerseNum |-> 0, Text |-> <<>>])}

\* The loop over the direct children of <div class="footnote">.
RECURSIVE footnoteParagraphs(_, _)
footnoteParagraphs(kids, j) ==
  IF j > Len(kids) THEN {<<>>}
  ELSE {here \o rest :
          here \in (IF kids[j].type = "elem" /\ kids[j].tag = "p" /\ hasClass(kids[j], "f")
                      THEN parseFootnoteParagraph(kids[j]) ELSE {<<>>}),
          rest \in footnoteParagraphs(kids, j + 1)}

\* extractFootnotes' walk: footnote blocks are read, not entered.
RECURSIVE walkFootnotes(_, _)
walkFootnotes(nodes, i) ==
  IF i > Len(nodes) THEN {<<>>}
  ELSE LET n == nodes[i]
       IN {here \o rest :
             here \in (IF n.type = "elem" /\ n.tag = "div" /\ hasClass(n, "footnote")
                         THEN footnoteParagraphs(n.kids, 1)
                         ELSE walkFootnotes(n.kids, 1)),
             rest \in walkFootnotes(nodes, i + 1)}

\* Parser.extractFootnotes: every footnote list it can return.
parserExtractFootnotes(nodes) == walkFootnotes(nodes, 1)

\* Parser.Parse on the tree html.Parse built: chapter number, verses,
\* footnotes, or the first failure; every result the call can return.
Parse(nodes) ==
  IF ~extractChapterNumber(nodes).found
    THEN {[NoParse EXCEPT !.done = TRUE, !.err = "failed to extract chapter number"]}
  ELSE {IF Len(verses) = 0
          THEN [NoParse EXCEPT !.done = TRUE, !.err = "failed to extract verses"]
          ELSE [done |-> TRUE, err |-> "",
                ChapterNumber |-> extractChapterNumber(nodes).chapter,
                Verses |-> verses, Footnotes |-> footnotes] :
        verses \in parserExtractVerses(nodes),
        footnotes \in parserExtractFootnotes(nodes)}

\* flatten (verify canon): the tokens' text concatenated, whitespace runs
\* collapsed, trimmed.
RECURSIVE concatTokens(_)
concatTokens(tokens) ==
  IF tokens = <<>> THEN <<>>
  ELSE Head(tokens).Text \o Head(tokens).Add \o Head(tokens).ND
         \o concatTokens(Tail(tokens))

flatten(tokens) == TrimSpace(collapseSpace(concatTokens(tokens)))

\* ------------------------------------------- the parser: the documents

\* Deepest nesting of inline elements after a verse marker.
MaxDepth == 2
\* Most children of an inline element.
MaxKids == 1
\* Most sibling nodes after the first verse marker of a paragraph.
MaxSibs == 2

\* Text nodes: a word, a word inside whitespace runs, a word followed by a
\* numeric entity that the source spelled with an escaped ampersand.
Texts ==
  {TextNode(<<"a">>), TextNode(<<" ", "b", " ", "\n">>),
   TextNode(<<"c", "&", "#", "3", "2", ";">>)}

\* Texts the cleaning has more to say about: an entity spelled with an escaped
\* ampersand, whose decoding depends on the order of the range over the
\* table, and a word followed by a no-break space (the file's "&nbsp;").
EntityTexts ==
  {TextNode(<<"&", "a", "m", "p", ";", "l", "t", ";">>), TextNode(<<"a", " ">>)}

\* Inline elements of the dialect: added words, divine name, footnote marker,
\* any other element.
Inline(kids) ==
  {Element("span", <<"add">>, kids), Element("span", <<"nd">>, kids),
   Element("a", <<"notemark">>, kids), Element("i", <<>>, kids)}

RECURSIVE Nodes(_)
Nodes(depth) ==
  IF depth = 0 THEN Texts
  ELSE Texts \cup UNION {Inline(kids) : kids \in SeqsUpTo(Nodes(depth - 1), MaxKids)}

\* Verse markers: <span class="verse">1</span>, 2, 3, one that is no number
\* and one whose number is past the int.
VerseSpans ==
  {Element("span", <<"verse">>, <<TextNode(t)>>) :
     t \in {<<"1">>, <<"2", " ">>, <<"3">>, <<"x">>, OutOfRange}}

ChapterLabel(t) == Element("div", <<"chapterlabel">>, <<TextNode(t)>>)

\* <p class="f" id=...><span class="notemark">*</span>
\*   <a class="notebackref" href="#V1">1.1</a><span class="ft">a</span></p>
FootnotePara(id, mark, href, text) ==
  ElementWith("p", <<"f">>, id, <<>>,
    <<Element("span", <<"notemark">>, <<TextNode(mark)>>),
      ElementWith("a", <<"notebackref">>, "", href, <<TextNode(<<"1", ".", "1">>)>>),
      Element("span", <<"ft">>, <<TextNode(text)>>)>>)

FootnoteBlocks ==
  {<<>>,
   <<Element("div", <<"footnote">>,
       <<FootnotePara("FN1", <<"*">>, <<"#", "V", "1">>, <<"a">>)>>)>>,
   <<Element("div", <<"footnote">>,
       <<FootnotePara("FN1", <<"*">>, <<"#", "V", "1">>, <<" ">>),
         FootnotePara("FN2", <<"*">>, <<"#", "x">>, <<"a">>)>>)>>}

\* A chapter document: the chapter label, one paragraph that starts with a
\* verse marker, the footnote block if any.
Document(label, first, rest, block) ==
  <<ChapterLabel(label), Element("div", <<"p">>, <<first>> \o rest)>> \o block

Docs ==
  {Document(<<"1">>, first, rest, <<>>) :
     first \in VerseSpans,
     rest \in SeqsUpTo(Nodes(MaxDepth) \cup VerseSpans, MaxSibs)}
  \cup
  {Document(label, first, <<TextNode(<<"a">>)>>, block) :
     label \in {<<"1">>, <<" ", "2">>, <<"x">>, OutOfRange}, first \in VerseSpans,
     block \in FootnoteBlocks}
  \cup
  {Document(<<"1">>, first, <<text>>, <<>>) :
     first \in VerseSpans, text \in EntityTexts}

\* ------------------------------------------------- the parser: actions

\* Parser.Parse(content, filename)
ParseDocument ==
  /\ doc # NoDoc
  /\ ~parsed.done
  /\ parsed' \in Parse(doc)
  /\ UNCHANGED <<doc, resolverVars, ingestVars, validation, verify, decoding, history, mainVars>>

InitTok ==
  /\ doc \in Docs
  /\ parsed = NoParse
  /\ disk = FixedDisk
  /\ InitCallers
  /\ IngestIdle /\ ToolsIdle /\ stop = NoStop

NextTok == ParseDocument

SpecTok == InitTok /\ [][NextTok]_vars

\* ------------------------------------------------ the entity decoder, called

\* Most pieces a generated text is put together from.
MaxPieces == 2

\* Pieces of text as html.Parse hands them to the tokenizer: after its own
\* decoding of the file, a text node may still spell an entity.
EntityPieces ==
  {<<"&", "a", "m", "p", ";">>, <<"&", "l", "t", ";">>, <<"l", "t", ";">>,
   <<"#", "1", "6", "0", ";">>, <<"&", "n", "b", "s", "p", ";">>, <<"a">>}

RECURSIVE TextsOf(_)
TextsOf(n) ==
  IF n = 0 THEN {<<>>}
  ELSE LET shorter == TextsOf(n - 1)
       IN shorter \cup {t \o p : t \in shorter, p \in EntityPieces}

\* decodeHTMLEntities applied to the text in one ingestion run; the range over
\* the table takes whatever order the runtime gives it in that run.
Decode ==
  /\ decoding.phase = "text" /\ Len(decoding.out) < 2
  /\ \E order \in RangeOrders :
       decoding' =
         [decoding EXCEPT !.out = Append(@, decodeHTMLEntities(decoding.text, order))]
  /\ UNCHANGED <<resolverVars, parserVars, ingestVars, validation, verify, history, mainVars>>

InitDecode ==
  /\ \E text \in TextsOf(MaxPieces) :
       decoding = [phase |-> "text", text |-> text, out |-> <<>>]
  /\ validation = NoValidation /\ verify = NoVerify /\ history = <<>>
  /\ stop = NoStop /\ extract = NoExtract
  /\ disk = FixedDisk /\ InitCallers /\ ParserIdle /\ IngestIdle

NextDecode == Decode

SpecDecode == InitDecode /\ [][NextDecode]_vars

\* On the generated texts the orders of VisitOrders give every result the
\* range can give: the parser's decodeResults leaves no outcome out.
VisitOrdersCoverRange ==
  decoding.phase = "text" =>
    decodeResults(decoding.text)
      = {decodeHTMLEntities(decoding.text, order) : order \in RangeOrders}

\* ------------------------------------------------ ingest: the validator

\* books.json as loaded by NewMetadataLoader (BooksData.Books, in file order).
GEN == <<"G", "E", "N">>
MAL == <<"M", "A", "L">>
ESG == <<"E", "S", "G">>
BooksData ==
  <<[OSIS |-> "Gen", Abbr |-> GEN, Chapters |-> 2],
    [OSIS |-> "Mal", Abbr |-> MAL, Chapters |-> 1],
    [OSIS |-> "Add Esth", Abbr |-> ESG, Chapters |-> 1]>>

\* MetadataLoader.BooksByAbbr
BooksByAbbr ==
  [a \in {BooksData[i].Abbr : i \in 1..Len(BooksData)} |->
     CHOOSE b \in {BooksData[i] : i \in 1..Len(BooksData)} : b.Abbr = a]

\* util.ValidationError; Expected and Actual hold the numbers they carry
\* (<<lo, hi>> for a bound written "lo-hi"), <<>> when unset; the Actual of a
\* "parse" error is the chapter key as written, a string.
ValidationError(file, type, message, expected, actual) ==
  [File |-> file, Type |-> type, Message |-> message,
   Expected |-> expected, Actual |-> actual]

IsLetter(c) ==
  c \in {"A", "B", "C", "D", "E", "F", "G", "H", "I", "J", "K", "L", "M", "N", "O",
         "P", "Q", "R", "S", "T", "U", "V", "W", "X", "Y", "Z",
         "a", "b", "c", "d", "e", "f", "g", "h", "i", "j", "k", "l", "m", "n", "o",
         "p", "q", "r", "s", "t", "u", "v", "w", "x", "y", "z"}

\* strings.ToUpper: a lower-case letter becomes its upper-case one, every
\* other character of an abbreviation (letters and digits only) stays.
ToUpper(s) ==
  LET LowerCase ==
        <<"a", "b", "c", "d", "e", "f", "g", "h", "i", "j", "k", "l", "m",
          "n", "o", "p", "q", "r", "s", "t", "u", "v", "w", "x", "y", "z">>
      UpperCase ==
        <<"A", "B", "C", "D", "E", "F", "G", "H", "I", "J", "K", "L", "M",
          "N", "O", "P", "Q", "R", "S", "T", "U", "V", "W", "X", "Y", "Z">>
  IN [i \in 1..Len(s) |->
        IF \E k \in 1..Len(LowerCase) : LowerCase[k] = s[i]
          THEN UpperCase[CHOOSE k \in 1..Len(LowerCase) : LowerCase[k] = s[i]]
          ELSE s[i]]

\* strings.TrimSuffix
TrimSuffix(s, suffix) ==
  IF Len(s) >= Len(suffix) /\ SubSeq(s, Len(s) - Len(suffix) + 1, Len(s)) = suffix
    THEN SubSeq(s, 1, Len(s) - Len(suffix)) ELSE s

\* parseFilename's backward scan: digitEndIdx, the index after the last
\* character that is no digit, len(base) when every character is a digit.
digitEndIdx(base) ==
  IF \E i \in 1..Len(base) : ~IsDigit(base[i])
    THEN CHOOSE i \in 1..Len(base) :
           ~IsDigit(base[i]) /\ \A j \in (i + 1)..Len(base) : IsDigit(base[j])
    ELSE Len(base)

\* parseFilename's forward scan: the first index (from 0) at which a digit
\* follows a character that is no digit, 0 when there is none.
splitIdx(base) ==
  IF \E i \in 1..(Len(base) - 1) : ~IsDigit(base[i]) /\ IsDigit(base[i + 1])
    THEN CHOOSE i \in 1..(Len(base) - 1) :
           /\ ~IsDigit(base[i]) /\ IsDigit(base[i + 1])
           /\ \A j \in 1..(i - 1) : ~(~IsDigit(base[j]) /\ IsDigit(base[j + 1]))
    ELSE 0

FilenameError(message) ==
  [ok |-> FALSE, panics |-> FALSE, abbr |-> <<>>, chapter |-> 0, err |-> message]

\* Validator.parseFilename.  The slice base[:digitEndIdx-len(base)+digitEndIdx]
\* is out of range, and the call panics, when the trailing digit run is longer
\* than what precedes it.
parseFilename(filename) ==
  LET base == TrimSuffix(filename, <<".", "h", "t", "m">>)
      sliceEnd == digitEndIdx(base) - Len(base) + digitEndIdx(base)
      abbr2 == SubSeq(base, 1, splitIdx(base))
      chapStr == SubSeq(base, splitIdx(base) + 1, Len(base))
  IN IF Len(base) < 4 THEN FilenameError("filename too short")
     ELSE IF sliceEnd < 0
       THEN [ok |-> FALSE, panics |-> TRUE, abbr |-> <<>>, chapter |-> 0,
             err |-> "slice bounds out of range"]
     ELSE IF sliceEnd = Len(base) THEN FilenameError("no chapter number in filename")
     ELSE IF splitIdx(base) = 0
       THEN IF \A i \in 1..Len(base) : IsDigit(base[i])
              THEN FilenameError("no book abbreviation in filename")
              ELSE FilenameError("no chapter number found in filename")
     ELSE IF ~Atoi(chapStr).ok THEN FilenameError("invalid chapter number")
     ELSE IF \E i \in 1..Len(abbr2) : ~(IsLetter(abbr2[i]) \/ IsDigit(abbr2[i]))
       THEN FilenameError("invalid characters in book abbreviation")
     ELSE [ok |-> TRUE, panics |-> FALSE, abbr |-> ToUpper(abbr2),
           chapter |-> Atoi(chapStr).num, err |-> ""]

\* The gap loop gone wrong: it stops at the first gap.
gapErrorsFirstOnly(filename, verses, i) ==
  IF \E j \in i..Len(verses) : verses[j].Number # verses[j - 1].Number + 1
    THEN LET j == CHOOSE k \in i..Len(verses) :
                    /\ verses[k].Number # verses[k - 1].Number + 1
                    /\ \A l \in i..(k - 1) : verses[l].Number = verses[l - 1].Number + 1
         IN <<[File |-> filename, Type |-> "verses", Message |-> "gap in verse numbers",
               Expected |-> <<verses[j - 1].Number + 1>>,
               Actual |-> <<verses[j].Number>>]>>
    ELSE <<>>

\* validateVersesContinuous' loop over i = 1 .. len(ec.Verses)-1.
RECURSIVE gapErrors(_, _, _)
gapErrors(filename, verses, i) ==
  IF i > Len(verses) THEN <<>>
  ELSE (IF verses[i].Number # verses[i - 1].Number + 1
          THEN <<ValidationError(filename, "verses", "gap in verse numbers",
                                 <<verses[i - 1].Number + 1>>, <<verses[i].Number>>)>>
          ELSE <<>>)
         \o gapErrors(filename, verses, i + 1)

\* Validator.validateVersesContinuous
validateVersesContinuous(filename, ec) ==
  IF Len(ec.Verses) = 0
    THEN <<ValidationError(filename, "verses", "no verses found in chapter", <<>>, <<>>)>>
  ELSE (IF ec.Verses[1].Number # 1
          THEN <<ValidationError(filename, "verses", "verses do not start at 1",
                                 <<1>>, <<ec.Verses[1].Number>>)>>
          ELSE <<>>)
         \o gapErrors(filename, ec.Verses, 2)

\* The footnote checks gone wrong: the verse lookup is left out.
footnoteErrorsNoLookup(filename, fn, verses) ==
  (IF fn.ID = ""
     THEN <<[File |-> filename, Type |-> "footnotes", Message |-> "footnote has empty ID",
             Expected |-> <<>>, Actual |-> <<>>]>>
     ELSE <<>>)
  \o (IF fn.VerseNum < 1
        THEN <<[File |-> filename, Type |-> "footnotes",
                Message |-> "footnote references invalid verse number",
                Expected |-> <<1>>, Actual |-> <<fn.VerseNum>>]>>
        ELSE <<>>)

\* The checks validateFootnoteResolution makes on one footnote, in order.
footnoteErrors(filename, fn, verses) ==
  (IF fn.ID = ""
     THEN <<ValidationError(filename, "footnotes", "footnote has empty ID", <<>>, <<>>)>>
     ELSE <<>>)
  \o (IF fn.Mark = <<>>
        THEN <<ValidationError(filename, "footnotes", "footnote has empty mark", <<>>, <<>>)>>
        ELSE <<>>)
  \o (IF fn.VerseNum < 1
        THEN <<ValidationError(filename, "footnotes",
                 "footnote references invalid verse number", <<1>>, <<fn.VerseNum>>)>>
        ELSE <<>>)
  \o (IF fn.Text = <<>>
        THEN <<ValidationError(filename, "footnotes", "footnote has empty text", <<>>, <<>>)>>
        ELSE <<>>)
  \o (IF ~\E i \in 1..Len(verses) : verses[i].Number = fn.VerseNum
        THEN <<ValidationError(filename, "footnotes",
                 "footnote references verse that doesn't exist in chapter",
                 <<>>, <<fn.VerseNum>>)>>
        ELSE <<>>)

\* Validator.validateFootnoteResolution
RECURSIVE validateFootnoteResolution(_, _, _)
validateFootnoteResolution(filename, ec, i) ==
  IF i > Len(ec.Footnotes) THEN <<>>
  ELSE footnoteErrors(filename, ec.Footnotes[i], ec.Verses)
         \o validateFootnoteResolution(filename, ec, i + 1)

\* The checks cut short: the errors of the first check that fails, no more.
ValidateChapterFileFirstFailure(filename, ec) ==
  LET name == parseFilename(filename)
      book == BooksByAbbr[name.abbr]
  IN IF ~name.ok
       THEN <<ValidationError(filename, "filename", name.err, <<>>, <<>>)>>
     ELSE IF name.abbr \notin DOMAIN BooksByAbbr
       THEN <<ValidationError(filename, "filename", "unknown book abbreviation", <<>>, <<>>)>>
     ELSE IF name.chapter # ec.ChapterNumber
       THEN <<ValidationError(filename, "label", "chapter number mismatch",
                              <<name.chapter>>, <<ec.ChapterNumber>>)>>
     ELSE IF name.chapter < 0 \/ name.chapter > book.Chapters
       THEN <<ValidationError(filename, "range", "chapter number exceeds expected maximum",
                              <<1, book.Chapters>>, <<name.chapter>>)>>
     ELSE IF validateVersesContinuous(filename, ec) # <<>>
       THEN validateVersesContinuous(filename, ec)
     ELSE validateFootnoteResolution(filename, ec, 1)

\* Validator.ValidateChapterFile, for a filename on which parseFilename returns.
ValidateChapterFile(filename, ec) ==
  LET name == parseFilename(filename)
      book == BooksByAbbr[name.abbr]
  IN IF ~name.ok
       THEN <<ValidationError(filename, "filename", name.err, <<>>, <<>>)>>
     ELSE IF name.abbr \notin DOMAIN BooksByAbbr
       THEN <<ValidationError(filename, "filename", "unknown book abbreviation", <<>>, <<>>)>>
     ELSE (IF name.chapter # ec.ChapterNumber
             THEN <<ValidationError(filename, "label", "chapter number mismatch",
                                    <<name.chapter>>, <<ec.ChapterNumber>>)>>
             ELSE <<>>)
          \o (IF name.chapter < 0 \/ name.chapter > book.Chapters
                THEN <<ValidationError(filename, "range", "chapter number exceeds expected maximum",
                                       <<1, book.Chapters>>, <<name.chapter>>)>>
                ELSE <<>>)
          \o validateVersesContinuous(filename, ec)
          \o validateFootnoteResolution(filename, ec, 1)

\* Validator.ValidateBook's errors for the chapter keys of aliases.json, the
\* keys taken in the order given (the code ranges over a map).
RECURSIVE bookErrors(_, _, _)
bookErrors(keys, i, book) ==
  IF i > Len(keys) THEN <<>>
  ELSE (IF ~Atoi(keys[i]).ok
          THEN <<ValidationError(<<>>, "parse",
                   "could not parse chapter number from aliases.json", <<>>, keys[i])>>
        ELSE IF Atoi(keys[i]).num < 0 \/ Atoi(keys[i]).num > book.Chapters
          THEN <<ValidationError(<<>>, "range", "chapter out of range for book",
                                 <<0, book.Chapters>>, <<Atoi(keys[i]).num>>)>>
        ELSE <<>>)
         \o bookErrors(keys, i + 1, book)

\* ------------------------------------------------ ingest: the processor

\* The orders in which a range can visit the keys of a map: every list that
\* holds each key once.
KeyOrders(S) ==
  {keys \in [1..Cardinality(S) -> S] :
     \A i, j \in 1..Cardinality(S) : i # j => keys[i] # keys[j]}

\* Validator.ValidateBook for a known book whose chapters are listed: every
\* error list it can return, one for each order of the range over the keys.
ValidateBook(book, chapters) ==
  {bookErrors(keys, 1, book) : keys \in KeyOrders(DOMAIN chapters)}

\* The builder gone wrong: the footnote field is always present.
extractedToChapterWithNotes(ec, book, work) ==
  [Schema |-> 1, Work |-> work, OSIS |-> book.OSIS, Abbr |-> book.Abbr,
   Chapter |-> ec.ChapterNumber,
   HasVerses |-> TRUE,
   Verses |-> [i \in 1..Len(ec.Verses) |->
                 [V |-> ec.Verses[i].Number, Plain |-> ec.Verses[i].Plain,
                  HasTokens |-> Len(ec.Verses[i].Tokens) > 0,
                  Tokens |-> ec.Verses[i].Tokens]],
   HasFootnotes |-> TRUE,
   Footnotes |-> [i \in 1..Len(ec.Footnotes) |->
                    [ID |-> ec.Footnotes[i].ID, Mark |-> ec.Footnotes[i].Mark,
                     At |-> [V |-> ec.Footnotes[i].VerseNum],
                     Text |-> ec.Footnotes[i].Text]]]

\* Processor.extractedToChapter.  A slice that is nil has its Has-field FALSE:
\* Verses is made and never nil; Tokens is the parser's slice, nil exactly
\* when the parser appended no token; Footnotes is set only when there are some.
extractedToChapter(ec, book, work) ==
  [Schema |-> 1, Work |-> work, OSIS |-> book.OSIS, Abbr |-> book.Abbr,
   Chapter |-> ec.ChapterNumber,
   HasVerses |-> TRUE,
   Verses |-> [i \in 1..Len(ec.Verses) |->
                 [V |-> ec.Verses[i].Number, Plain |-> ec.Verses[i].Plain,
                  HasTokens |-> Len(ec.Verses[i].Tokens) > 0,
                  Tokens |-> ec.Verses[i].Tokens]],
   HasFootnotes |-> Len(ec.Footnotes) > 0,
   Footnotes |-> [i \in 1..Len(ec.Footnotes) |->
                    [ID |-> ec.Footnotes[i].ID, Mark |-> ec.Footnotes[i].Mark,
                     At |-> [V |-> ec.Footnotes[i].VerseNum],
                     Text |-> ec.Footnotes[i].Text]]]

\* writeChapterJSON's path, books/<OSIS>/chNN.json, relative to the output dir.
outputPath(chapter) == <<chapter.OSIS, chapter.Chapter>>

parseError(filename, message) ==
  <<ValidationError(filename, "parse", message, <<>>, <<>>)>>

\* ------------------------------------------- ingest: the raw sources

VerseSpan(t) == Element("span", <<"verse">>, <<TextNode(t)>>)

FootnoteBlock(href) ==
  <<Element("div", <<"footnote">>, <<FootnotePara("FN1", <<"*">>, href, <<"a">>)>>)>>

\* The raw chapter files of the runs: a well-formed chapter of two verses and
\* one footnote; a chapter without a chapter label; one whose first verse is
\* verse 2; one whose footnote refers to verse 9; one with two footnotes of
\* the same id; one whose second inline element holds a footnote marker.
HtmlDoc(kind, label) ==
  CASE kind = "good" ->
         Document(label, VerseSpan(<<"1">>),
           <<TextNode(<<"a", " ">>), Element("span", <<"add">>, <<TextNode(<<"b">>)>>),
             VerseSpan(<<"2">>), TextNode(<<" ", "b", " ", "\n">>)>>,
           FootnoteBlock(<<"#", "V", "1">>))
    [] kind = "nolabel" ->
         <<Element("div", <<"p">>, <<VerseSpan(<<"1">>), TextNode(<<"a">>)>>)>>
    [] kind = "from2" ->
         Document(label, VerseSpan(<<"2">>), <<TextNode(<<"a">>)>>, <<>>)
    [] kind = "badfn" ->
         Document(label, VerseSpan(<<"1">>), <<TextNode(<<"a">>)>>,
           FootnoteBlock(<<"#", "V", "9">>))
    [] kind = "dupfn" ->
         Document(label, VerseSpan(<<"1">>), <<TextNode(<<"a">>)>>,
           <<Element("div", <<"footnote">>,
               <<FootnotePara("FN1", <<"*">>, <<"#", "V", "1">>, <<"a">>),
                 FootnotePara("FN1", <<"*">>, <<"#", "V", "1">>, <<"b">>)>>)>>)
    [] OTHER ->
         Document(label, VerseSpan(<<"1">>),
           <<Element("i", <<>>, <<TextNode(<<"a">>)>>),
             Element("i", <<>>, <<Element("a", <<"notemark">>, <<TextNode(<<"*">>)>>)>>)>>,
           <<>>)

NoFile(st) == [st |-> st, kind |-> "", label |-> <<>>]
Html(kind, label) == [st |-> "html", kind |-> kind, label |-> label]

\* The metadata path of a raw file: <abbr><digits>.htm.
htm(abbr, digits) == abbr \o digits \o <<".", "h", "t", "m">>

\* What the first listed file of Genesis, GEN01.htm, can be.
FirstFiles ==
  {NoFile("missing"), NoFile("unreadable"), Html("good", <<"1">>),
   Html("nolabel", <<"1">>), Html("from2", <<"1">>), Html("badfn", <<"1">>),
   Html("dupfn", <<"1">>), Html("roundtrip", <<"1">>), Html("good", <<"2">>)}

\* The second entry of Genesis in aliases.json: chapter key, file, and the
\* chapter label of the file when it is there; the last is no entry at all
\* (aliases.json lists one chapter of Genesis).
SecondEntries ==
  {[key |-> <<"2">>, file |-> htm(GEN, <<"0", "2">>), label |-> <<"2">>],
   [key |-> <<"3">>, file |-> htm(GEN, <<"0", "3">>), label |-> <<"3">>],
   [key |-> <<"2">>, file |-> htm(GEN, <<"0", "0", "0", "2">>), label |-> <<"2">>],
   [key |-> <<"x">>, file |-> htm(GEN, <<>>), label |-> <<"1">>],
   [key |-> OutOfRange, file |-> htm(GEN, <<"0", "2">>), label |-> <<"2">>],
   [key |-> <<>>, file |-> <<>>, label |-> <<>>]}

SecondFiles(label) == {NoFile("missing"), Html("good", label), Html("roundtrip", label)}

\* Malachi: not in aliases.json, or listed with a file that is good or unreadable.
MalFiles == {NoFile("missing"), NoFile("unreadable"), Html("good", <<"1">>)}

\* aliases.json (AliasesData) and the raw directory of one world.
AliasesOf(second, mal) ==
  LET first == <<"1">> :> htm(GEN, <<"0", "1">>)
      gen == "Gen" :> [SourceAbbr |-> GEN,
                       Chapters |-> IF second.key = <<>> THEN first
                                    ELSE first @@ (second.key :> second.file)]
      malachi == "Mal" :> [SourceAbbr |-> MAL,
                           Chapters |-> (<<"1">> :> htm(MAL, <<"0", "1">>))]
  IN IF mal = NoFile("missing") THEN gen ELSE gen @@ malachi

RawOf(second, s1, s2, mal) ==
  (htm(GEN, <<"0", "1">>) :> s1)
    @@ (IF second.key = <<>> THEN <<>> ELSE second.file :> s2)
    @@ (htm(MAL, <<"0", "1">>) :> mal)

\* ------------------------------------------------- ingest: the actions

\* IngestCLI.Run up to the loop over the books.
RunStart ==
  /\ ipc = "start"
  /\ IF ~cli.ProcOK
       THEN /\ ret' = "error" /\ ipc' = "done" /\ produced' = produced + 1
            /\ queue' = queue
       ELSE /\ queue' = IF cli.Book = <<"a", "l", "l">>
                          THEN [i \in 1..Len(BooksData) |-> BooksData[i].Abbr]
                          ELSE <<cli.Book>>
            /\ ipc' = "books" /\ ret' = ret /\ produced' = produced
  /\ UNCHANGED <<cli, aliases, raw, pb, totals, combined, canon, filemapFile>>
  /\ UNCHANGED <<resolverVars, parserVars, validation, verify, decoding, history, mainVars>>

\* ProcessBook up to its loop: the book's metadata, ValidateBook, the listing.
\* A hard error is printed by Run, which goes on with the next book.
BeginBook ==
  /\ ipc = "books" /\ queue # <<>>
  /\ LET abbr == Head(queue)
     IN IF abbr \notin DOMAIN BooksByAbbr
             \/ BooksByAbbr[abbr].OSIS \notin DOMAIN aliases
          THEN /\ pb' = [NoBook EXCEPT !.phase = "failed", !.abbr = abbr]
               /\ produced' = produced + 1
               /\ queue' = Tail(queue)
               /\ ipc' = "books"
          ELSE LET book == BooksByAbbr[abbr]
                   chapters == aliases[book.OSIS].Chapters
               IN /\ \E errors \in ValidateBook(book, chapters) :
                       /\ pb' = [NoBook EXCEPT !.phase = "loop", !.abbr = abbr,
                                               !.OSIS = book.OSIS,
                                               !.todo = DOMAIN chapters,
                                               !.listed = Cardinality(DOMAIN chapters),
                                               !.Errors = errors]
                       /\ produced' = produced + Len(errors)
                  /\ queue' = queue
                  /\ ipc' = "files"
  /\ UNCHANGED <<cli, aliases, raw, totals, combined, canon, filemapFile, ret>>
  /\ UNCHANGED <<resolverVars, parserVars, validation, verify, decoding, history, mainVars>>

\* A pass of the loop that ends in "FilesSkipped++; continue".
Skip(key, errs) ==
  /\ pb' = [pb EXCEPT !.todo = @ \ {key}, !.FilesProcessed = @ + 1,
                      !.FilesSkipped = @ + 1, !.Errors = @ \o errs]
  /\ produced' = produced + Len(errs)
  /\ UNCHANGED <<canon, ipc, ret>>

\* One pass of ProcessBook's loop, for the chapter key the range yields next:
\* locate, read, parse, validate, build, write, record in the filemap.
ProcessFile(key) ==
  /\ ipc = "files" /\ key \in pb.todo
  /\ LET filePath == aliases[pb.OSIS].Chapters[key]
         file == raw[filePath]
     IN IF file.st = "missing"
          THEN Skip(key, parseError(filePath, "failed to locate file"))
        ELSE IF file.st = "unreadable"
          THEN Skip(key, parseError(filePath, "failed to read file"))
        ELSE \E ec \in Parse(HtmlDoc(file.kind, file.label)) :
          LET fileErrors == ValidateChapterFile(filePath, ec)
              chapter == extractedToChapter(ec, BooksByAbbr[pb.abbr], "KJV")
          IN IF ec.err # ""
               THEN Skip(key, parseError(filePath, "failed to parse HTML"))
             ELSE IF parseFilename(filePath).panics
               THEN /\ pb' = [pb EXCEPT !.todo = @ \ {key}, !.FilesProcessed = @ + 1]
                    /\ ipc' = "panicked" /\ ret' = "panic"
                    /\ UNCHANGED <<canon, produced>>
             ELSE IF Len(fileErrors) > 0
               THEN Skip(key, fileErrors)
             ELSE \/ Skip(key, parseError(filePath, "failed to write output"))
                  \/ /\ canon' = (outputPath(chapter) :> chapter) @@ canon
                     /\ pb' = [pb EXCEPT !.todo = @ \ {key}, !.FilesProcessed = @ + 1,
                                         !.FileMap = (filePath :> outputPath(chapter)) @@ @,
                                         !.written = @ + 1]
                     /\ UNCHANGED <<ipc, ret, produced>>
  /\ UNCHANGED <<cli, aliases, raw, queue, totals, combined, filemapFile>>
  /\ UNCHANGED <<resolverVars, parserVars, validation, verify, decoding, history, mainVars>>

\* The end of ProcessBook (the manifest, when asked for) and what Run does
\* with its return: totals and the combined filemap, or, on an error, a
\* printed line and nothing else.
EndBook ==
  /\ ipc = "files" /\ pb.todo = {}
  /\ \/ /\ cli.Manifest
        /\ pb' = [pb EXCEPT !.phase = "failed"]
        /\ produced' = produced + 1
        /\ UNCHANGED <<totals, combined>>
     \/ /\ pb' = [pb EXCEPT !.phase = "ended"]
        /\ totals' = [totalProcessed |-> totals.totalProcessed + pb.FilesProcessed,
                      totalSkipped |-> totals.totalSkipped + pb.FilesSkipped,
                      totalErrors |-> totals.totalErrors + Len(pb.Errors)]
        /\ combined' = pb.FileMap @@ combined
        /\ produced' = produced
  /\ queue' = Tail(queue)
  /\ ipc' = "books"
  /\ UNCHANGED <<cli, aliases, raw, canon, filemapFile, ret>>
  /\ UNCHANGED <<resolverVars, parserVars, validation, verify, decoding, history, mainVars>>

\* Run after the loop: WriteFileMap (a failure is a warning), close(stop), the
\* summary and the return value.
Finish ==
  /\ ipc = "books" /\ queue = <<>>
  /\ \/ filemapFile' = IF DOMAIN combined # {} THEN combined ELSE filemapFile
     \/ DOMAIN combined # {} /\ filemapFile' = filemapFile
  /\ stop' = [stop EXCEPT !.closes = @ + 1]
  /\ ret' = IF cli.Book = <<"a", "l", "l">> /\ totals.totalErrors > 0 THEN "error" ELSE "nil"
  /\ ipc' = "done"
  /\ UNCHANGED <<cli, aliases, raw, queue, pb, totals, combined, canon, produced>>
  /\ UNCHANGED <<resolverVars, parserVars, validation, verify, decoding, history, extract>>

\* main after kongCtx.Run() has returned.  An error: close(stop), which panics
\* on a closed channel, then os.Exit(1).  No error: the receive from stop,
\* which a closed channel completes with ok = false; on a channel nobody has
\* closed it waits, the spinner goroutine running on.
IngestMain ==
  /\ ipc = "done" /\ stop.main = "running"
  /\ stop' = IF ret = "error"
               THEN [closes |-> stop.closes + 1,
                     main |-> IF stop.closes > 0 THEN "panicked" ELSE "failed"]
               ELSE [stop EXCEPT !.main = IF stop.closes > 0 THEN "exited" ELSE "blocked"]
  /\ UNCHANGED ingestVars
  /\ UNCHANGED <<resolverVars, parserVars, validation, verify, decoding, history, extract>>

\* The state main hands to Run: the command line, the metadata and the raw
\* directory of one world, nothing processed yet.
InitIngest ==
  /\ \/ \E second \in SecondEntries, s1 \in FirstFiles, mal \in MalFiles,
           book \in {<<"a", "l", "l">>, GEN, MAL, <<"X", "X", "X">>},
           manifest \in BOOLEAN :
          \E s2 \in SecondFiles(second.label) :
            /\ cli = [Book |-> book, Manifest |-> manifest, ProcOK |-> TRUE]
            /\ aliases = AliasesOf(second, mal)
            /\ raw = RawOf(second, s1, s2, mal)
     \/ /\ cli = [Book |-> <<"a", "l", "l">>, Manifest |-> FALSE, ProcOK |-> FALSE]
        /\ aliases = <<>> /\ raw = <<>>
  /\ ipc = "start" /\ queue = <<>> /\ pb = NoBook /\ totals = NoTotals
  /\ combined = <<>> /\ canon = <<>> /\ filemapFile = <<>>
  /\ ret = "none" /\ produced = 0
  /\ disk = FixedDisk /\ InitCallers /\ ParserIdle /\ ToolsIdle /\ stop = NewStop

NextIngest ==
  \/ RunStart
  \/ BeginBook
  \/ \E key \in pb.todo : ProcessFile(key)
  \/ EndBook
  \/ Finish
  \/ IngestMain

SpecIngest == InitIngest /\ [][NextIngest]_vars

\* ------------------------------------------- ingest: one run after another

\* Most ingestion runs made over one output directory.
MaxRuns == 2

\* The tool is started again over the same raw directory, metadata and output
\* directory, with a command line of its own; what the run before left in
\* filemap.json is noted.
RunAgain ==
  /\ ipc = "done" /\ stop.main # "running" /\ Len(history) + 1 < MaxRuns
  /\ \E book \in {<<"a", "l", "l">>, GEN, MAL, <<"X", "X", "X">>}, manifest \in BOOLEAN :
       cli' = [cli EXCEPT !.Book = book, !.Manifest = manifest]
  /\ history' = Append(history, filemapFile)
  /\ ipc' = "start" /\ queue' = <<>> /\ pb' = NoBook /\ totals' = NoTotals
  /\ combined' = <<>> /\ ret' = "none" /\ stop' = NewStop
  /\ UNCHANGED <<aliases, raw, canon, filemapFile, produced>>
  /\ UNCHANGED <<resolverVars, parserVars, validation, verify, decoding, extract>>

\* The first run starts with an empty output directory; Genesis lists
\* GEN01.htm, a well-formed chapter or not there, and GEN02.htm.
InitRuns ==
  /\ InitIngest
  /\ cli.ProcOK
  /\ htm(GEN, <<"0", "2">>) \in DOMAIN raw
  /\ raw[htm(GEN, <<"0", "1">>)] \in {NoFile("missing"), Html("good", <<"1">>)}

NextRuns == NextIngest \/ RunAgain

SpecRuns == InitRuns /\ [][NextRuns]_vars

\* ------------------------------------- the validator and builder, called

\* The books whose chapters skip the verse-continuity check in
\* validateChapterFile of the verify tool (chapterData.OSIS == "Add Esth").
ExceptionSet == {"Add Esth"}

MaxVerses == 3

\* util.ExtractedVerse with number n.
VerseOf(n) ==
  [Number |-> n, Plain |-> [i \in 1..n |-> "a"],
   Tokens |-> <<TextToken([i \in 1..n |-> "a"])>>]

\* The verse lists of an extracted chapter: up to MaxVerses verses, any numbers.
VerseLists ==
  UNION {[1..n -> {VerseOf(k) : k \in 1..MaxVerseNum}] : n \in 0..MaxVerses}

\* util.ExtractedFootnote values: each field empty or not, the verse
\* reference below 1, at verse 1, or above every verse.
Notes ==
  [ID : {"", "FN1"}, Mark : {<<>>, <<"*">>}, VerseNum : {0, 1, MaxVerseNum + 1},
   Text : {<<>>, <<"a">>}]

GoodNote == [ID |-> "FN1", Mark |-> <<"*">>, VerseNum |-> 1, Text |-> <<"a">>]

\* The footnote lists of an extracted chapter: none, one, or a well-formed
\* footnote followed by another one (of the same id, or with no id).
NoteLists ==
  {<<>>} \cup {<<f>> : f \in Notes}
    \cup {<<GoodNote, f>> : f \in {g \in Notes : g.Mark # <<>> /\ g.Text # <<>>}}

\* The file names handed to ValidateChapterFile (filepath.Base of the listed
\* path); the last one has a chapter number past the int.
FileNames ==
  {htm(GEN, <<"0", "1">>), htm(GEN, <<"0", "2">>), htm(GEN, <<"0", "0">>),
   htm(GEN, <<"0", "3">>), htm(GEN, <<>>), htm(ESG, <<"0", "1">>),
   htm(<<"X", "Y", "Z">>, <<"0", "1">>), htm(<<>>, <<"1", "2", "3", "4", "5">>),
   htm(<<"A", "B">>, <<"1", "2", "3">>), htm(<<"1", "S", "A">>, <<"3", "1">>),
   htm(<<"S", "3", "Y">>, <<"0", "1">>), htm(<<"g", "e", "n">>, <<"0", "2">>),
   htm(<<"A", "B", "C", "D", "E", "F", "G", "H", "I", "J", "K", "L", "M", "N", "O", "P",
         "Q", "R", "S">>, OutOfRange)}

\* ProcessBook's call of ValidateChapterFile on one extracted chapter.
ValidateFile ==
  /\ validation.phase = "new"
  /\ validation' =
       [validation EXCEPT
          !.phase = "validated",
          !.panics = parseFilename(validation.filename).panics,
          !.errors = IF parseFilename(validation.filename).panics THEN <<>>
                     ELSE ValidateChapterFile(validation.filename, validation.ec)]
  /\ UNCHANGED <<resolverVars, parserVars, ingestVars, verify, decoding, history, mainVars>>

\* ProcessBook's call of extractedToChapter, for the book being processed; a
\* file with validation errors is skipped ("continue") and never built, and
\* a panic of the validator ends the process.
BuildChapter ==
  /\ validation.phase = "validated"
  /\ ~validation.panics /\ Len(validation.errors) = 0
  /\ \E i \in 1..Len(BooksData) :
       validation' =
         [validation EXCEPT
            !.phase = "built", !.book = BooksData[i],
            !.chapter = extractedToChapter(validation.ec, BooksData[i], "KJV")]
  /\ UNCHANGED <<resolverVars, parserVars, ingestVars, verify, decoding, history, mainVars>>

InitValidate ==
  /\ \E filename \in FileNames, number \in 0..2, verses \in VerseLists,
        notes \in NoteLists :
       validation =
         [phase |-> "new", filename |-> filename,
          ec |-> [ChapterNumber |-> number, Verses |-> verses, Footnotes |-> notes],
          panics |-> FALSE, errors |-> <<>>, book |-> <<>>, chapter |-> <<>>]
  /\ verify = NoVerify /\ decoding = NoDecoding /\ history = <<>>
  /\ stop = NoStop /\ extract = NoExtract
  /\ disk = FixedDisk /\ InitCallers /\ ParserIdle /\ IngestIdle

NextValidate == ValidateFile \/ BuildChapter

SpecValidate == InitValidate /\ [][NextValidate]_vars

\* ------------------------------------------------- verify canon: pure

\* validateVerse / validateVerseBasic (basic: no contiguity check): the error
\* message, "" for nil.  A verse read from JSON has Tokens nil when the
\* field is missing or null.
validateVerse(verse, previousNum, basic) ==
  IF verse.V <= 0 THEN "invalid or missing verse number"
  ELSE IF ~basic /\ verse.V # previousNum + 1 THEN "non-contiguous verse numbers"
  ELSE IF ~verse.HasTokens THEN "missing tokens field in verse"
  ELSE IF verse.Plain = <<>> THEN "missing plain field in verse"
  ELSE IF flatten(verse.Tokens) # verse.Plain
    THEN "plain text does not match concatenated tokens"
  ELSE ""

\* validateChapterFile's loop over chapterData.Verses: the first error.
RECURSIVE validateVerses(_, _, _)
validateVerses(verses, i, osis) ==
  IF i > Len(verses) THEN ""
  ELSE LET err == validateVerse(verses[i], IF i = 1 THEN 0 ELSE verses[i - 1].V,
                                osis \in ExceptionSet)
       IN IF err # "" THEN err ELSE validateVerses(verses, i + 1, osis)

\* validateFootnotes: the first error.
RECURSIVE validateFootnotes(_, _, _)
validateFootnotes(footnotes, verses, i) ==
  IF i > Len(footnotes) THEN ""
  ELSE IF \A j \in 1..Len(verses) : verses[j].V # footnotes[i].At.V
    THEN "footnote references non-existent verse"
  ELSE IF \E j \in 1..(i - 1) : footnotes[j].ID = footnotes[i].ID
    THEN "duplicate footnote ID"
  ELSE validateFootnotes(footnotes, verses, i + 1)

\* validateChapterFile: the error message, "" for nil.
validateChapterFile(file) ==
  IF file.st = "unreadable" THEN "failed to read file"
  ELSE IF file.st = "badjson" THEN "failed to parse JSON"
  ELSE LET c == file.chapter
       IN IF c.Schema # 1 THEN "invalid or missing schema version"
          ELSE IF ~c.HasVerses THEN "missing verses field"
          ELSE IF validateVerses(c.Verses, 1, c.OSIS) # ""
            THEN validateVerses(c.Verses, 1, c.OSIS)
          ELSE IF c.HasFootnotes /\ validateFootnotes(c.Footnotes, c.Verses, 1) # ""
            THEN validateFootnotes(c.Footnotes, c.Verses, 1)
          ELSE IF c.Work = "" \/ c.OSIS = "" \/ c.Abbr = <<>>
            THEN "missing required metadata fields"
          ELSE IF c.Chapter < 1 THEN "invalid chapter number"
          ELSE ""

\* ------------------------------------------ verify canon: the canon dir

\* A chapter file as ingestion writes it, from an extracted chapter.
ChapterFile(i, number, verses, notes) ==
  [st |-> "ok",
   chapter |-> extractedToChapter(
                 [ChapterNumber |-> number, Verses |-> verses, Footnotes |-> notes],
                 BooksData[i], "KJV")]

\* The kinds of chapter file of the verification runs.
CanonFile(kind, i, number) ==
  CASE kind = "good" -> ChapterFile(i, number, <<VerseOf(1), VerseOf(2)>>, <<GoodNote>>)
    [] kind = "gap" -> ChapterFile(i, number, <<VerseOf(1), VerseOf(3)>>, <<>>)
    [] kind = "dupfn" -> ChapterFile(i, number, <<VerseOf(1)>>, <<GoodNote, GoodNote>>)
    [] kind = "roundtrip" ->
         ChapterFile(i, number, <<[VerseOf(1) EXCEPT !.Plain = <<"a", "*">>]>>, <<>>)
    [] kind = "notokens" ->
         ChapterFile(i, number, <<[VerseOf(1) EXCEPT !.Tokens = <<>>]>>, <<>>)
    [] kind = "noverses" ->
         [st |-> "ok",
          chapter |-> [ChapterFile(i, number, <<>>, <<>>).chapter
                         EXCEPT !.HasVerses = FALSE]]
    [] kind = "schema" ->
         [st |-> "ok",
          chapter |-> [ChapterFile(i, number, <<VerseOf(1)>>, <<>>).chapter
                         EXCEPT !.Schema = 0]]
    [] OTHER -> [st |-> kind]

\* filepath.Walk's order over books/<OSIS>/chNN.json (lexical).
WalkOrder ==
  << <<"Add Esth", 1>>, <<"Gen", 1>>, <<"Gen", 2>>, <<"Gen", 3>>, <<"Mal", 1>> >>

\* What each of those paths can hold; "none": the file is not there.
CanonKinds ==
  << {"none", "good", "gap"},
     {"none", "good", "gap", "dupfn", "roundtrip", "notokens", "noverses", "schema",
      "unreadable", "badjson"},
     {"none", "good", "gap"},
     {"none", "good"},
     {"none", "good", "gap"} >>

BookIndex(osis) == CHOOSE i \in 1..Len(BooksData) : BooksData[i].OSIS = osis

\* The canon directory for a choice of kinds, one per path of WalkOrder.
CanonDir(kinds) ==
  [path \in {WalkOrder[k] : k \in {j \in 1..Len(WalkOrder) : kinds[j] # "none"}} |->
     LET k == CHOOSE j \in 1..Len(WalkOrder) : WalkOrder[j] = path
     IN CanonFile(kinds[k], BookIndex(path[1]), path[2])]

\* getCanonFiles: the .json files filepath.Walk finds under <canon>/books, and
\* the error the walk ends with.  walk is "ok", "missing" (books cannot be
\* stat-ed: nothing is found), or the book directory that cannot be read (the
\* files before it have been found).
getCanonFiles(files, walk) ==
  LET stopsAt == IF \E k \in 1..Len(WalkOrder) : WalkOrder[k][1] = walk
                   THEN CHOOSE k \in 1..Len(WalkOrder) :
                          /\ WalkOrder[k][1] = walk
                          /\ \A j \in 1..(k - 1) : WalkOrder[j][1] # walk
                   ELSE IF walk = "ok" THEN Len(WalkOrder) + 1 ELSE 1
  IN [files |-> SelectSeq(SubSeq(WalkOrder, 1, stopsAt - 1),
                          LAMBDA path : path \in DOMAIN files),
      err |-> walk # "ok"]

\* CanonCmd.Run's test on a book of books.json: a mismatch that counts.
chapterCountMismatch(book, count) ==
  book.Chapters # count /\ book.OSIS \notin ExceptionSet

\* ---------------------------------------------- verify canon: actions

\* CanonCmd.Run up to its loop: getCanonFiles, its error returned at once, and
\* the early return when there is no chapter file.
VerifyStart ==
  /\ verify.phase = "start"
  /\ LET chapters == getCanonFiles(verify.files, verify.walk)
     IN verify' =
          IF chapters.err
            THEN [verify EXCEPT !.phase = "done", !.ret = "error"]
          ELSE IF Len(chapters.files) = 0
            THEN [verify EXCEPT !.phase = "done", !.ret = "nil"]
          ELSE [verify EXCEPT !.phase = "chapters", !.todo = chapters.files]
  /\ UNCHANGED <<resolverVars, parserVars, ingestVars, validation, decoding, history, mainVars>>

\* One pass of Run's loop over the chapter files.
VerifyChapter ==
  /\ verify.phase = "chapters" /\ verify.todo # <<>>
  /\ LET path == Head(verify.todo)
         file == verify.files[path]
     IN verify' =
          IF validateChapterFile(file) # ""
            THEN [verify EXCEPT !.todo = Tail(@), !.totalErrors = @ + 1,
                                !.reported.chapters = @ \cup {path}]
            ELSE [verify EXCEPT !.todo = Tail(@),
                                !.bookChapterCounts[file.chapter.OSIS] = @ + 1]
  /\ UNCHANGED <<resolverVars, parserVars, ingestVars, validation, decoding, history, mainVars>>

\* Run after the loop: filemap.json is read and every path in it looked up.
VerifyFilemap ==
  /\ verify.phase = "chapters" /\ verify.todo = <<>>
  /\ LET entries == verify.filemap.entries
         missing == {src \in DOMAIN entries : entries[src] \notin DOMAIN verify.files}
     IN verify' =
          IF verify.filemap.st # "ok"
            THEN [verify EXCEPT !.phase = "done", !.ret = "error"]
            ELSE [verify EXCEPT !.phase = "books",
                                !.totalErrors = @ + Cardinality(missing),
                                !.reported.filemap = missing]
  /\ UNCHANGED <<resolverVars, parserVars, ingestVars, validation, decoding, history, mainVars>>

\* The end of Run: books.json is read (a file that cannot be read or parsed
\* ends Run with an error, stop left as it is), then the chapter count of
\* every book, close(stop), the summary and the return value.
VerifyBooks ==
  /\ verify.phase = "books"
  /\ LET mismatches ==
           {i \in 1..Len(BooksData) :
              chapterCountMismatch(BooksData[i],
                                   verify.bookChapterCounts[BooksData[i].OSIS])}
         total == verify.totalErrors + Cardinality(mismatches)
     IN IF verify.books # "ok"
          THEN /\ verify' = [verify EXCEPT !.phase = "done", !.ret = "error"]
               /\ stop' = stop
          ELSE /\ verify' =
                    [verify EXCEPT !.phase = "done", !.totalErrors = total,
                                   !.reported.counts = {BooksData[i].OSIS : i \in mismatches},
                                   !.checked = TRUE,
                                   !.ret = IF total > 0 THEN "error" ELSE "nil"]
               /\ stop' = [stop EXCEPT !.closes = @ + 1]
  /\ UNCHANGED <<resolverVars, parserVars, ingestVars, validation, decoding, history, extract>>

\* main of the verify tool after kongCtx.Run() has returned: with or without
\* an error it receives from stop, and closes it if the receive yields a
\* value.  A closed channel completes the receive with ok = false.  On a
\* channel nobody has closed the receive waits for a sender that does not
\* exist; the tool runs no other goroutine.
VerifyMain ==
  /\ verify.phase = "done" /\ stop.main = "running"
  /\ stop' = [stop EXCEPT !.main = IF stop.closes = 0 THEN "blocked"
                                   ELSE IF verify.ret = "error" THEN "failed"
                                   ELSE "exited"]
  /\ UNCHANGED <<resolverVars, parserVars, ingestVars, validation, verify, decoding, history,
                 extract>>

\* The canon and index directories handed to verify canon.
InitVerify ==
  /\ \E kinds \in {k \in [1..Len(WalkOrder) -> UNION {CanonKinds[j] : j \in 1..Len(CanonKinds)}] :
                      \A j \in 1..Len(WalkOrder) : k[j] \in CanonKinds[j]},
        index \in {"unreadable", "badjson", "complete", "dangling"},
        walk \in {"ok", "missing", "Gen"},
        books \in {"ok", "unreadable", "badjson"} :
       verify =
         [phase |-> "start", files |-> CanonDir(kinds), walk |-> walk, books |-> books,
          filemap |->
            [st |-> IF index \in {"unreadable", "badjson"} THEN index ELSE "ok",
             entries |->
               IF index = "dangling"
                 THEN [path \in DOMAIN CanonDir(kinds) \cup {<<"Gen", 9>>} |-> path]
                 ELSE [path \in DOMAIN CanonDir(kinds) |-> path]],
          todo |-> <<>>,
          bookChapterCounts |-> [osis \in {BooksData[i].OSIS : i \in 1..Len(BooksData)} |-> 0],
          totalErrors |-> 0,
          reported |-> [chapters |-> {}, filemap |-> {}, counts |-> {}],
          checked |-> FALSE, ret |-> "none"]
  /\ validation = NoValidation /\ decoding = NoDecoding /\ history = <<>>
  /\ stop = NewStop /\ extract = NoExtract
  /\ disk = FixedDisk /\ InitCallers /\ ParserIdle /\ IngestIdle

NextVerify ==
  VerifyStart \/ VerifyChapter \/ VerifyFilemap \/ VerifyBooks \/ VerifyMain

SpecVerify == InitVerify /\ [][NextVerify]_vars

\* ------------------------------------------ verify raw and the extract tool

\* Most lines of a generated manifest.
MaxLines == 2

\* A line of SHA256MANIFEST: empty or a comment, fewer than two fields, a
\* file that cannot be read, a file with another hash, a file with the hash.
ManifestLines == {"comment", "invalid", "unreadable", "mismatch", "match"}

RECURSIVE LinesUpTo(_)
LinesUpTo(n) ==
  IF n = 0 THEN {<<>>}
  ELSE LinesUpTo(n - 1)
         \cup {Append(ls, l) : ls \in {m \in LinesUpTo(n - 1) : Len(m) = n - 1},
                               l \in ManifestLines}

\* RawCmd.Run: the raw directory, the manifest, the lines, close(stop), the
\* summary and the return value.  Every return before the scan has ended
\* leaves stop as it is.
VerifyRaw ==
  /\ verify.phase = "raw"
  /\ LET r == verify.raw
         early == \/ ~r.dir \/ r.manifest # "ok" \/ r.scanErr
         bad == {i \in 1..Len(r.lines) : r.lines[i] \in {"invalid", "unreadable", "mismatch"}}
     IN /\ verify' = [verify EXCEPT !.phase = "done",
                                    !.ret = IF early \/ bad # {} THEN "error" ELSE "nil"]
        /\ stop' = IF early THEN stop ELSE [stop EXCEPT !.closes = @ + 1]
  /\ UNCHANGED <<resolverVars, parserVars, ingestVars, validation, decoding, history, extract>>

\* The steps of MainBooks that can fail.
BooksSteps == {"getwd", "osis", "read", "parse", "marshal", "write"}

\* main of the extract tool up to its receive: the subcommand.  MainBooks
\* calls close(stop) before every return, after a failed step as after the
\* last one; an unknown subcommand prints a line and starts nothing.  For
\* "aliases" main starts the spinner and calls MainAliases(stop); the body of
\* that function is not among the sources (the MainAliases() at hand takes
\* no channel), so both of its outcomes are followed: it returns with the
\* channel closed, or with the channel as it was.
ExtractRun ==
  /\ extract.phase = "start"
  /\ extract' = [extract EXCEPT !.phase = "returned"]
  /\ \/ /\ extract.cmd \in {"books", "aliases"}
        /\ stop' = [stop EXCEPT !.closes = @ + 1]
     \/ /\ extract.cmd # "books"
        /\ stop' = stop
  /\ UNCHANGED <<resolverVars, parserVars, ingestVars, validation, verify, decoding, history>>

\* main's receive from stop at its end.
ExtractMain ==
  /\ extract.phase = "returned" /\ stop.main = "running"
  /\ stop' = [stop EXCEPT !.main = IF stop.closes = 0 THEN "blocked" ELSE "exited"]
  /\ UNCHANGED <<resolverVars, parserVars, ingestVars, validation, verify, decoding, history,
                 extract>>

\* A tool has been started: verify canon, verify raw, or extract with the
\* subcommand books, aliases, or one it does not know.
InitMains ==
  \/ InitVerify
  \/ /\ \/ /\ \E dir \in BOOLEAN, manifest \in {"missing", "unopenable", "ok"},
                  lines \in LinesUpTo(MaxLines), scanErr \in BOOLEAN :
                 verify = [phase |-> "raw", ret |-> "none",
                           raw |-> [dir |-> dir, manifest |-> manifest,
                                    lines |-> lines, scanErr |-> scanErr]]
           /\ extract = NoExtract
        \/ /\ \E cmd \in {"books", "aliases", ""}, fails \in BooksSteps \cup {"none"} :
                 extract = [phase |-> "start", cmd |-> cmd, fails |-> fails]
           /\ verify = NoVerify
     /\ validation = NoValidation /\ decoding = NoDecoding /\ history = <<>>
     /\ stop = NewStop
     /\ disk = FixedDisk /\ InitCallers /\ ParserIdle /\ IngestIdle

NextMains == NextVerify \/ VerifyRaw \/ ExtractRun \/ ExtractMain

SpecMains == InitMains /\ [][NextMains]_vars

\* ------------------------------------------------------- resolver: claims

\* The declarative reading of a verse range: which verse numbers it selects.
Selects(vr, n) ==
  IF ~vr.has THEN TRUE
  ELSE IF ~vr.hasEnd THEN n = vr.start
  ELSE vr.start <= n /\ n <= vr.end

\* The chapter file a reference names, as stored on disk.
StoredChapter(r) == disk[<<r.osis, IF r.chapter = 0 THEN 1 ELSE r.chapter>>].ch

Succeeded(p) == pc[p] = "done" /\ result[p].hasRes
Failed(p) == pc[p] = "done" /\ ~result[p].hasRes

\* The stored verse numbers are exactly 1..N.
IsOneToN(verses) == \A i \in 1..Len(verses) : verses[i].v = i

\* The returned verses are the stored verses the range selects, in stored order.
VersesAreFiltered(p) ==
  result[p].verses =
    SelectSeq(StoredChapter(ref[p]).verses, LAMBDA x : Selects(ref[p].verse, x.v))

\* C1 as stated: the verse list returned by Resolve is the stored list filtered
\* by the range (all verses, number = start, or start <= number <= end), and for
\* a chapter stored as 1..N a start/end range returns at most end-start+1 verses.
C1_AsStated ==
  \A p \in Callers : Succeeded(p) =>
    /\ VersesAreFiltered(p)
    /\ (IsOneToN(StoredChapter(ref[p]).verses) /\ ref[p].verse.has /\ ref[p].verse.hasEnd)
         => Len(result[p].verses) <= ref[p].verse.end - ref[p].verse.start + 1

\* C1 amended: the same, the count bound end-start+1 holding when start <= end;
\* a range whose end is below its start returns no verse.
C1_RangeSelection ==
  \A p \in Callers : Succeeded(p) =>
    /\ VersesAreFiltered(p)
    /\ (IsOneToN(StoredChapter(ref[p]).verses) /\ ref[p].verse.has /\ ref[p].verse.hasEnd)
         => IF ref[p].verse.start <= ref[p].verse.end
              THEN Len(result[p].verses) <= ref[p].verse.end - ref[p].verse.start + 1
              ELSE result[p].verses = <<>>

\* A range 1..3 over a chapter that stores verses 1 and 3 only: verse 2 is
\* omitted, two verses come back, no error.
C1_Witness ==
  \E p \in Callers :
    /\ Succeeded(p)
    /\ ref[p].verse = [has |-> TRUE, start |-> 1, hasEnd |-> TRUE, end |-> 3]
    /\ StoredChapter(ref[p]).verses = mkVerses(<<1, 3>>)
    /\ Len(result[p].verses) = 2

\* C2: the footnotes returned by Resolve are the chapter's footnotes whose verse
\* is the number of a returned verse, in the chapter's footnote order, and none
\* when no verse is returned.
C2_FootnoteSelection ==
  \A p \in Callers : Succeeded(p) =>
    /\ result[p].footnotes =
         SelectSeq(StoredChapter(ref[p]).footnotes,
                   LAMBDA f : \E i \in 1..Len(result[p].verses) :
                                 result[p].verses[i].v = f.at)
    /\ result[p].verses = <<>> => result[p].footnotes = <<>>

\* A call that returned one of the chapter's two footnotes and left out the
\* other, whose verse is stored but was not asked for.
C2_Witness ==
  \E p \in Callers :
    /\ Succeeded(p)
    /\ Len(StoredChapter(ref[p]).footnotes) = 2
    /\ Len(result[p].footnotes) = 1
    /\ \E i \in 1..2 :
         /\ StoredChapter(ref[p]).footnotes[i].at \in verseSetOf(StoredChapter(ref[p]).verses)
         /\ StoredChapter(ref[p]).footnotes[i].at \notin verseSetOf(result[p].verses)

\* The references the contract rejects.
UnknownBook(r) == r.osis = "" \/ r.osis \notin DOMAIN booksByID
ChapterOutOfRange(r) ==
  /\ ~UnknownBook(r)
  /\ (IF r.chapter = 0 THEN 1 ELSE r.chapter) \notin 1..booksByID[r.osis].Chapters

\* C3: Resolve fails with a RangeError exactly for an empty or unknown book
\* ("unknown book") and for an effective chapter outside 1..Chapters ("chapter
\* out of range", bound 1-N), and it does so before any cache lookup or read.
C3_RangeErrors ==
  \A p \in Callers :
    /\ pc[p] = "done" =>
         /\ result[p].err.kind = "range"
              <=> (UnknownBook(ref[p]) \/ ChapterOutOfRange(ref[p]))
         /\ UnknownBook(ref[p]) => result[p].err.err = "unknown book"
         /\ ChapterOutOfRange(ref[p]) =>
              /\ result[p].err.msg.text = "chapter out of range"
              /\ result[p].err.msg.lo = 1
              /\ result[p].err.msg.hi = booksByID[ref[p].osis].Chapters
         /\ result[p].err.kind = "range" => did[p] = {} /\ ~result[p].hasRes
    /\ pc[p] \in {"rlock", "lookup", "read", "lock", "insert", "extract"} =>
         ~(UnknownBook(ref[p]) \/ ChapterOutOfRange(ref[p]))

\* Genesis has two chapters: chapter 3 is refused with the bound 1-2, and a
\* reference without a chapter number is resolved as chapter 1.
C3_Witness ==
  /\ \E p \in Callers :
       /\ pc[p] = "done" /\ ref[p].osis = "Gen" /\ ref[p].chapter = 3
       /\ result[p].err.kind = "range" /\ result[p].err.msg.hi = 2
  /\ \E q \in Callers :
       /\ Succeeded(q) /\ ref[q].chapter = 0 /\ result[q].chapter.chapter = 1

\* Two finished resolutions of the same reference agree.
SameRefSameResult ==
  \A p, q \in Callers :
    (pc[p] = "done" /\ pc[q] = "done" /\ ref[p] = ref[q]) => result[p] = result[q]

\* A step keeps every cached key and its content.
CacheKeepsContent ==
  \A k \in DOMAIN cache : k \in DOMAIN cache' /\ cache'[k] = cache[k]

\* C4: two resolutions of an identical reference return equal results, and the
\* content stored in the cache under a key never changes afterwards.
C4_Idempotent == [](SameRefSameResult) /\ [][CacheKeepsContent]_vars

\* Two finished calls for the same reference, one that read the file and one
\* that was served from the cache.
C4_Witness ==
  \E p, q \in Callers :
    /\ p # q /\ Succeeded(p) /\ Succeeded(q) /\ ref[p] = ref[q]
    /\ "read" \in did[p] /\ "read" \notin did[q]

\* A step leaves the cache as it was or adds one key holding the parsed file.
CacheGrowsByOneParsed ==
  \/ cache' = cache
  \/ \E k \in FileKeys \ DOMAIN cache :
       /\ DOMAIN cache' = DOMAIN cache \cup {k}
       /\ disk[k].st = "ok" /\ cache'[k] = disk[k].ch
       /\ \A j \in DOMAIN cache : cache'[j] = cache[j]

\* A failed call returned nothing and never wrote the cache; a successful call
\* wrote it at most once.
ErrorsLeaveNothing ==
  \A p \in Callers : pc[p] = "done" =>
    /\ result[p].hasRes <=> result[p].err = NoErr
    /\ ~result[p].hasRes =>
         /\ result[p].chapter = NoChapter /\ result[p].verses = <<>>
         /\ result[p].footnotes = <<>> /\ result[p].bookName = ""
         /\ "insert" \notin did[p]
    /\ result[p].hasRes => result[p].chapter = StoredChapter(ref[p])

\* C5: a Resolve call that fails (RangeError, FileError, ParseError) returns no
\* result and leaves the cache as it was; a successful call leaves the cache
\* unchanged or with one more entry, a successfully parsed chapter.
C5_NoPartialResults == [](ErrorsLeaveNothing) /\ [][CacheGrowsByOneParsed]_vars

\* A call that failed on a file that does not parse, next to a call that
\* succeeded and inserted its chapter.
C5_Witness ==
  \E p, q \in Callers :
    /\ Failed(p) /\ result[p].err.kind = "parse" /\ did[p] = {"lookup", "read"}
    /\ Succeeded(q) /\ "insert" \in did[q] /\ DOMAIN cache = {keyOf(ref[q])}

\* C6: once a Resolve call for a key has completed successfully the key is in
\* the cache, and a call for that key that starts afterwards is served from the
\* cache: it never reads the file or inserts.
C6_ServedFromCache ==
  /\ resolved \subseteq DOMAIN cache
  /\ \A p \in Callers : known[p] =>
       /\ pc[p] \notin {"read", "lock", "insert"}
       /\ did[p] \cap {"read", "insert"} = {}
       /\ pc[p] = "done" => result[p].hasRes /\ did[p] = {"lookup"}

\* A call that started after its key was resolved and has returned its result.
C6_Witness ==
  \E p \in Callers : known[p] /\ Succeeded(p) /\ keyOf(ref[p]) = <<"Gen", 2>>

\* The lock is held by one writer and nobody else, or by readers only; a
\* caller holds the read lock exactly while it stands at the lookup and the
\* write lock exactly while it stands at the insertion.
LockDiscipline ==
  /\ Cardinality(writer) <= 1
  /\ writer # {} => readers = {}
  /\ \A p \in Callers :
       /\ p \in readers <=> pc[p] = "lookup"
       /\ p \in writer <=> pc[p] = "insert"

\* A step that changes the cache map is taken by the holder of the write lock.
CacheWrittenUnderLock ==
  cache' # cache => \E p \in writer : pc[p] = "insert" /\ pc'[p] # "insert"

\* C21: the cache map is read only under the read lock and written only under
\* the write lock; no caller holds the write lock while another holds the
\* read lock or the write lock; readers may hold the read lock together.
C21_LockDiscipline == [](LockDiscipline) /\ [][CacheWrittenUnderLock]_vars

\* Both callers hold the read lock at the same time.
C21_Witness == readers = Callers /\ \A p \in Callers : pc[p] = "lookup"

\* The call of p has finished after missing the cache, loading the file and
\* inserting it.
LoadedAndInserted(p) ==
  pc[p] = "done" /\ {"lookup", "read", "insert"} \subseteq did[p]

\* C22: the file is read and parsed while the caller holds no lock; when two
\* callers have both missed, loaded and inserted the same key, the cache holds
\* the key with the content of the file, both were handed that content, and for
\* equal references their results are equal.
C22_RacingLoads ==
  /\ \A p \in Callers : pc[p] = "read" => p \notin readers \cup writer
  /\ \A p, q \in Callers :
       (/\ p # q /\ LoadedAndInserted(p) /\ LoadedAndInserted(q)
        /\ keyOf(ref[p]) = keyOf(ref[q])) =>
         /\ keyOf(ref[p]) \in DOMAIN cache
         /\ cache[keyOf(ref[p])] = disk[pathOf(ref[p])].ch
         /\ ch[p] = cache[keyOf(ref[p])] /\ ch[q] = ch[p]
         /\ result[p].hasRes /\ result[q].hasRes
         /\ result[p].chapter = result[q].chapter
         /\ ref[p] = ref[q] => result[p] = result[q]

\* Two callers have both loaded and inserted Genesis 2 and have returned.
C22_Witness ==
  \E p, q \in Callers :
    /\ p # q /\ LoadedAndInserted(p) /\ LoadedAndInserted(q)
    /\ ref[p] = ref[q] /\ keyOf(ref[p]) = <<"Gen", 2>>
    /\ result[p].hasRes /\ DOMAIN cache = {<<"Gen", 2>>}

\* A call that has returned holds no lock.
ReturnsUnlocked ==
  \A p \in Callers : pc[p] \in {"idle", "done"} => p \notin readers \cup writer

\* C23: under a fair scheduler every Resolve call that has started returns, a
\* result or an error, and a call that has returned holds no cache lock,
\* whichever path it took (hit, miss, error).
C23_EveryCallReturns ==
  /\ [](ReturnsUnlocked)
  /\ \A p \in Callers : (pc[p] \notin {"idle", "done"}) ~> (pc[p] = "done")

\* One call has returned after loading and inserting its chapter, another
\* after failing to read its file; the lock is free.
C23_Witness ==
  \E p, q \in Callers :
    /\ p # q /\ LoadedAndInserted(p) /\ result[p].hasRes
    /\ pc[q] = "done" /\ ~result[q].hasRes /\ did[q] = {"lookup", "read"}
    /\ readers = {} /\ writer = {}

\* -------------------------------------------------------- parser: claims

\* The round-trip invariant on one verse: the tokens' text concatenated,
\* collapsed and trimmed is the plain field.
RoundTrips(verse) == flatten(verse.Tokens) = verse.Plain

\* C7: for every markup tree of the dialect (text, added words, divine name,
\* footnote marker and other elements, nested to any depth) every verse the
\* tokenizer produces satisfies the round-trip invariant.
C7_RoundTrip ==
  parsed.done => \A i \in 1..Len(parsed.Verses) : RoundTrips(parsed.Verses[i])

\* The numbers of the verse markers found in a tree: the verse spans whose
\* first field is a number.
RECURSIVE markerNumbers(_, _)
markerNumbers(sibs, i) ==
  IF i > Len(sibs) THEN {}
  ELSE LET field == firstField(TrimSpace(getTextContent(sibs[i])))
           here == IF isVerseSpan(sibs[i]) /\ field # <<>> /\ Atoi(field).ok
                     THEN {Atoi(field).num} ELSE {}
       IN here \cup markerNumbers(sibs[i].kids, 1) \cup markerNumbers(sibs, i + 1)

VerseNumbers(verses) == {verses[i].Number : i \in 1..Len(verses)}

\* C24 (as the specification states it): the verse list of a parsed document
\* holds a verse for every verse marker found in the tree, under the
\* marker's number, whether or not the numbers are contiguous or start at 1.
C24_AsStated ==
  (parsed.done /\ parsed.err = "") =>
    markerNumbers(doc, 1) \subseteq VerseNumbers(parsed.Verses)

\* The fields of a token that hold text.
Populated(token) ==
  {f \in {"Text", "Add", "ND"} : token[f] # NoText}

\* A token of exactly one kind whose text is non-empty and has every run of
\* whitespace collapsed to one space.
WellFormedToken(token) ==
  /\ Cardinality(Populated(token)) = 1
  /\ \A f \in Populated(token) : collapseSpace(token[f]) = token[f]

\* C25 (as the specification states it): every token of every verse the
\* tokenizer returns has exactly one of its fields populated, with non-empty
\* whitespace-normalized text; no zero-length token is in the sequence.
C25_AsStated ==
  (parsed.done /\ parsed.err = "") =>
    \A i \in 1..Len(parsed.Verses) :
      \A j \in 1..Len(parsed.Verses[i].Tokens) :
        WellFormedToken(parsed.Verses[i].Tokens[j])

\* The footnote paragraphs of a tree, in document order: the <p class="f">
\* elements that are direct children of a <div class="footnote">.
RECURSIVE footnoteParasIn(_, _)
footnoteParasIn(nodes, i) ==
  IF i > Len(nodes) THEN <<>>
  ELSE LET n == nodes[i]
           IsPara(k) == k.type = "elem" /\ k.tag = "p" /\ hasClass(k, "f")
       IN (IF n.type = "elem" /\ n.tag = "div" /\ hasClass(n, "footnote")
             THEN SelectSeq(n.kids, IsPara)
             ELSE footnoteParasIn(n.kids, 1))
            \o footnoteParasIn(nodes, i + 1)

\* The paragraph has a glyph, a text, and a back-reference whose target is
\* the verse anchor followed by an integer.
CompleteFootnote(para) ==
  /\ \E j \in 1..Len(para.kids) :
       /\ para.kids[j].type = "elem" /\ para.kids[j].tag = "span"
       /\ hasClass(para.kids[j], "notemark")
       /\ getTextContent(para.kids[j]) # <<>>
  /\ \E j \in 1..Len(para.kids) :
       /\ para.kids[j].type = "elem" /\ para.kids[j].tag = "span"
       /\ hasClass(para.kids[j], "ft")
       /\ <<>> \notin cleanVerseText(getTextContent(para.kids[j]))
  /\ \E j \in 1..Len(para.kids) :
       /\ para.kids[j].type = "elem" /\ para.kids[j].tag = "a"
       /\ hasClass(para.kids[j], "notebackref")
       /\ HasPrefix(para.kids[j].href, <<"#", "V">>)
       /\ Atoi(SubSeq(para.kids[j].href, 3, Len(para.kids[j].href))).ok

IdsOf(items) == [i \in 1..Len(items) |-> items[i].id]

\* C26 (as the specification states it): the footnotes returned are, in
\* document order, those of the footnote paragraphs that have a glyph, a text
\* and a back-reference of the shape verse anchor + integer; every other
\* paragraph is dropped.
C26_AsStated ==
  (parsed.done /\ parsed.err = "") =>
    [i \in 1..Len(parsed.Footnotes) |-> parsed.Footnotes[i].ID]
      = IdsOf(SelectSeq(footnoteParasIn(doc, 1), CompleteFootnote))

\* ---------------------------------------------------------- ingest: claims

\* ProcessBook has returned for the current book after ranging over its files.
BookOver == pb.phase \in {"ended", "failed"} /\ pb.OSIS # ""

\* C8: a run that has ended is reported as failed (Run returns an error)
\* whenever the accumulated error count of its units is nonzero, and is
\* reported as successful only when no unit produced an error.
C8_AsStated ==
  ipc = "done" =>
    /\ totals.totalErrors > 0 => ret = "error"
    /\ ret = "nil" => produced = 0

\* C9: ProcessBook goes on to the next file whatever a file did, a skipped
\* file adds an error and a written file a filemap entry, and when the book
\* is over FilesProcessed is the number of listed files and is FilesSkipped
\* plus the number of files written.
C9_AsStated ==
  /\ ipc # "panicked"
  /\ Len(pb.Errors) >= pb.FilesSkipped
  /\ Cardinality(DOMAIN pb.FileMap) = pb.written
  /\ BookOver => /\ pb.FilesProcessed = pb.listed
                  /\ pb.FilesProcessed = pb.FilesSkipped + pb.written

\* C17 (as the specification states it): once ProcessBook has processed all
\* chapter files of a book outside the exception set, an error is reported
\* for the book whenever the number of its chapters that passed validation
\* (those written) differs from the book's declared chapter count.  Any
\* error of the book is let count as the report.
C17_AsStated ==
  (pb.phase = "ended" /\ pb.OSIS \notin ExceptionSet
     /\ pb.written # BooksByAbbr[pb.abbr].Chapters) =>
    pb.Errors # <<>>

\* C10: no chapter in canonical output holds a verse whose token
\* concatenation differs from its plain text (such a chapter fails the
\* round-trip check at build time and is not written).
C10_AsStated ==
  \A path \in DOMAIN canon :
    \A i \in 1..Len(canon[path].Verses) : RoundTrips(canon[path].Verses[i])

\* C29 (as the specification states it): on every path of the ingest tool
\* (initialisation failure, a run without errors, a run that ends with
\* accumulated errors) the stop channel is closed exactly once; close is
\* never called on it a second time.
C29_AsStated ==
  stop.main \in {"exited", "failed", "panicked", "blocked"} =>
    stop.closes = 1 /\ stop.main # "panicked"

\* ------------------------------------------------------- validator: claims

\* The validator has returned an error list for the file.
Validated == validation.phase \in {"validated", "built"} /\ ~validation.panics

\* The file name resolved to a known book, so the remaining checks ran.
BookResolved ==
  /\ parseFilename(validation.filename).ok
  /\ parseFilename(validation.filename).abbr \in DOMAIN BooksByAbbr

FileBook == BooksByAbbr[parseFilename(validation.filename).abbr]

IsOfType(e, type) == e.Type = type
IsVersesError(e) == IsOfType(e, "verses")
IsFootnotesError(e) == IsOfType(e, "footnotes")
VersesErrors == SelectSeq(validation.errors, IsVersesError)
FootnotesErrors == SelectSeq(validation.errors, IsFootnotesError)

StoredNumbers == [i \in 1..Len(validation.ec.Verses) |-> validation.ec.Verses[i].Number]

\* The positions of the stored verses that do not follow their predecessor.
Gaps ==
  {i \in 2..Len(StoredNumbers) : StoredNumbers[i] # StoredNumbers[i - 1] + 1}

\* C11: for a chapter of a book outside the exception set the 'verses' errors
\* are: one when the first stored verse is not verse 1, and one per stored
\* verse that does not follow its predecessor, carrying the expected and the
\* actual number; there is none exactly when the numbers are 1..N, N >= 1.
C11_VerseContinuity ==
  (Validated /\ BookResolved /\ FileBook.OSIS \notin ExceptionSet) =>
    /\ (VersesErrors = <<>>) <=>
         (Len(StoredNumbers) >= 1 /\ \A i \in 1..Len(StoredNumbers) : StoredNumbers[i] = i)
    /\ Len(StoredNumbers) >= 1 =>
         /\ Len(VersesErrors) =
              (IF StoredNumbers[1] # 1 THEN 1 ELSE 0) + Cardinality(Gaps)
         /\ StoredNumbers[1] # 1 =>
              /\ VersesErrors[1].Expected = <<1>>
              /\ VersesErrors[1].Actual = <<StoredNumbers[1]>>
         /\ \A i \in Gaps :
              \E k \in 1..Len(VersesErrors) :
                /\ VersesErrors[k].Expected = <<StoredNumbers[i - 1] + 1>>
                /\ VersesErrors[k].Actual = <<StoredNumbers[i]>>
                /\ k = (IF StoredNumbers[1] # 1 THEN 1 ELSE 0)
                         + Cardinality({j \in Gaps : j <= i})

\* A chapter of Genesis whose verses are 2, 1, 3: a wrong start and two gaps.
C11_Witness ==
  /\ Validated /\ BookResolved /\ FileBook.OSIS = "Gen"
  /\ StoredNumbers = <<2, 1, 3>>
  /\ Len(VersesErrors) = 3

\* The conditions, of the five, that a footnote fails.
FailedConditions(fn) ==
  (IF fn.ID = "" THEN {"id"} ELSE {})
    \cup (IF fn.Mark = <<>> THEN {"mark"} ELSE {})
    \cup (IF fn.Text = <<>> THEN {"text"} ELSE {})
    \cup (IF fn.VerseNum < 1 THEN {"number"} ELSE {})
    \cup (IF \A i \in 1..Len(StoredNumbers) : StoredNumbers[i] # fn.VerseNum
            THEN {"verse"} ELSE {})

RECURSIVE SumOver(_, _)
SumOver(f, i) == IF i > Len(f) THEN 0 ELSE f[i] + SumOver(f, i + 1)

\* C12: the 'footnotes' errors of a validated file are one per failing
\* condition of each extracted footnote (empty id, empty marker, empty text,
\* verse number below 1, verse not in the chapter); a footnote meeting all
\* five adds none.
C12_FootnoteErrors ==
  (Validated /\ BookResolved) =>
    LET notes == validation.ec.Footnotes
    IN /\ Len(FootnotesErrors) =
            SumOver([i \in 1..Len(notes) |-> Cardinality(FailedConditions(notes[i]))], 1)
       /\ (\A i \in 1..Len(notes) : FailedConditions(notes[i]) = {}) <=>
            FootnotesErrors = <<>>
       /\ \A i \in 1..Len(notes) :
            /\ "number" \in FailedConditions(notes[i]) =>
                 \E k \in 1..Len(FootnotesErrors) :
                   /\ FootnotesErrors[k].Message = "footnote references invalid verse number"
                   /\ FootnotesErrors[k].Actual = <<notes[i].VerseNum>>
            /\ "verse" \in FailedConditions(notes[i]) =>
                 \E k \in 1..Len(FootnotesErrors) :
                   /\ FootnotesErrors[k].Message =
                        "footnote references verse that doesn't exist in chapter"
                   /\ FootnotesErrors[k].Actual = <<notes[i].VerseNum>>
            /\ "id" \in FailedConditions(notes[i]) =>
                 \E k \in 1..Len(FootnotesErrors) :
                   FootnotesErrors[k].Message = "footnote has empty ID"
            /\ "mark" \in FailedConditions(notes[i]) =>
                 \E k \in 1..Len(FootnotesErrors) :
                   FootnotesErrors[k].Message = "footnote has empty mark"
            /\ "text" \in FailedConditions(notes[i]) =>
                 \E k \in 1..Len(FootnotesErrors) :
                   FootnotesErrors[k].Message = "footnote has empty text"

\* A footnote that fails all five conditions.
C12_Witness ==
  /\ Validated /\ BookResolved
  /\ Len(validation.ec.Footnotes) = 1
  /\ FailedConditions(validation.ec.Footnotes[1]) = {"id", "mark", "text", "number", "verse"}
  /\ Len(FootnotesErrors) = 5

\* C13: every chapter in canonical output has footnote integrity: each
\* footnote refers to a verse stored in the chapter, and no two footnotes of
\* the chapter have the same id.
C13_AsStated ==
  \A path \in DOMAIN canon :
    LET chapter == canon[path]
    IN /\ \A i \in 1..Len(chapter.Footnotes) :
            \E j \in 1..Len(chapter.Verses) :
              chapter.Verses[j].V = chapter.Footnotes[i].At.V
       /\ \A i, j \in 1..Len(chapter.Footnotes) :
            chapter.Footnotes[i].ID = chapter.Footnotes[j].ID => i = j

IsRangeError(e) == IsOfType(e, "range")
RangeErrors == SelectSeq(validation.errors, IsRangeError)

\* C14: a validated file has a 'range' error, carrying the bound
\* 1..book.Chapters, exactly when the chapter number of its name is outside
\* [1, book.Chapters].
C14_AsStated ==
  (Validated /\ BookResolved) =>
    /\ (RangeErrors # <<>>) <=>
         (parseFilename(validation.filename).chapter \notin 1..FileBook.Chapters)
    /\ \A i \in 1..Len(RangeErrors) : RangeErrors[i].Expected = <<1, FileBook.Chapters>>

\* A file name as the specification reads it: the trailing digit run is the
\* chapter, what precedes it the abbreviation.
NameStem == TrimSuffix(validation.filename, <<".", "h", "t", "m">>)
DigitRunStart ==
  CHOOSE i \in 1..(Len(NameStem) + 1) :
    /\ \A j \in i..Len(NameStem) : IsDigit(NameStem[j])
    /\ i > 1 => ~IsDigit(NameStem[i - 1])
NameAbbr == SubSeq(NameStem, 1, DigitRunStart - 1)
Unparseable ==
  \/ DigitRunStart > Len(NameStem)
  \/ NameAbbr = <<>>
  \/ \E i \in 1..Len(NameAbbr) : ~(IsLetter(NameAbbr[i]) \/ IsDigit(NameAbbr[i]))
UnknownAbbreviation == ToUpper(NameAbbr) \notin DOMAIN BooksByAbbr

\* C15: for a file name that cannot be parsed, or whose abbreviation is no
\* known book, ValidateChapterFile returns exactly one error, of type
\* 'filename', and nothing from the remaining checks.
C15_AsStated ==
  (validation.phase \in {"validated", "built"} /\ (Unparseable \/ UnknownAbbreviation)) =>
    /\ ~validation.panics
    /\ Len(validation.errors) = 1
    /\ validation.errors[1].Type = "filename"

\* C27 (as the specification states it): for a file name made of an
\* abbreviation of letters and digits, a digit run and the extension,
\* parseFilename returns the value of the trailing digit run as the chapter
\* and what precedes it, uppercased, as the abbreviation.
C27_AsStated ==
  (/\ validation.phase \in {"validated", "built"}
   /\ NameStem # validation.filename /\ ~Unparseable) =>
    LET parsedName == parseFilename(validation.filename)
    IN /\ parsedName.ok
       /\ parsedName.chapter = digitsVal(SubSeq(NameStem, DigitRunStart, Len(NameStem)), 0)
       /\ parsedName.abbr = ToUpper(NameAbbr)

IsLabelError(e) == IsOfType(e, "label")
LabelErrors == SelectSeq(validation.errors, IsLabelError)

\* The chapter number of the file name: the value of its trailing digit run.
NameChapter == digitsVal(SubSeq(NameStem, DigitRunStart, Len(NameStem)), 0)

\* C28: for a file whose name resolves to a known book every check is run
\* and every error kept: there is a 'label' error, carrying the chapter of
\* the name and the chapter the tokenizer extracted, exactly when the two
\* differ, and next to it the errors of the range check, all errors of the
\* verse-continuity check and all errors of the footnote check.
C28_AllChecksRun ==
  (Validated /\ BookResolved) =>
    /\ (LabelErrors # <<>>) <=> (NameChapter # validation.ec.ChapterNumber)
    /\ Len(LabelErrors) <= 1
    /\ \A i \in 1..Len(LabelErrors) :
         /\ LabelErrors[i].Expected = <<NameChapter>>
         /\ LabelErrors[i].Actual = <<validation.ec.ChapterNumber>>
    /\ NameChapter > FileBook.Chapters => Len(RangeErrors) = 1
    /\ VersesErrors = validateVersesContinuous(validation.filename, validation.ec)
    /\ FootnotesErrors = validateFootnoteResolution(validation.filename, validation.ec, 1)
    /\ Len(validation.errors) =
         Len(LabelErrors) + Len(RangeErrors) + Len(VersesErrors) + Len(FootnotesErrors)

\* A file that fails all four checks and has the errors of all of them.
C28_Witness ==
  /\ Validated /\ BookResolved
  /\ LabelErrors # <<>> /\ RangeErrors # <<>>
  /\ VersesErrors # <<>> /\ FootnotesErrors # <<>>

\* C16: for a chapter of a book in the exception set that stores at least
\* one verse, no 'verses' error is reported whatever the numbering, and the
\* footnote checks are applied as for any other book.
C16_AsStated ==
  (Validated /\ BookResolved /\ FileBook.OSIS \in ExceptionSet
     /\ Len(StoredNumbers) >= 1) =>
    /\ VersesErrors = <<>>
    /\ Len(FootnotesErrors) =
         SumOver([i \in 1..Len(validation.ec.Footnotes) |->
                    Cardinality(FailedConditions(validation.ec.Footnotes[i]))], 1)

\* C18: the built chapter has schema marker 1, the processor's work, the
\* book's OSIS code and abbreviation and the extracted chapter number; one
\* verse per extracted verse in the same order with the same number, plain
\* text and tokens; one footnote per extracted footnote in the same order;
\* and a footnote field exactly when the extracted footnote list is not empty.
C18_ChapterBuilt ==
  validation.phase = "built" =>
    LET c == validation.chapter
        ec == validation.ec
    IN /\ c.Schema = 1 /\ c.Work = "KJV"
       /\ c.OSIS = validation.book.OSIS /\ c.Abbr = validation.book.Abbr
       /\ c.Chapter = ec.ChapterNumber
       /\ Len(c.Verses) = Len(ec.Verses)
       /\ \A i \in 1..Len(ec.Verses) :
            /\ c.Verses[i].V = ec.Verses[i].Number
            /\ c.Verses[i].Plain = ec.Verses[i].Plain
            /\ c.Verses[i].Tokens = ec.Verses[i].Tokens
       /\ Len(c.Footnotes) = Len(ec.Footnotes)
       /\ \A i \in 1..Len(ec.Footnotes) :
            /\ c.Footnotes[i].ID = ec.Footnotes[i].ID
            /\ c.Footnotes[i].Mark = ec.Footnotes[i].Mark
            /\ c.Footnotes[i].Text = ec.Footnotes[i].Text
            /\ c.Footnotes[i].At.V = ec.Footnotes[i].VerseNum
       /\ c.HasFootnotes <=> Len(ec.Footnotes) > 0

\* A chapter of Malachi built from a file that passed validation, with three
\* verses and no footnote: the order is kept and the footnote field is absent.
C18_Witness ==
  /\ validation.phase = "built" /\ validation.book.OSIS = "Mal"
  /\ StoredNumbers = <<1, 2, 3>>
  /\ validation.chapter.Verses[3].V = 3
  /\ validation.ec.Footnotes = <<>> /\ ~validation.chapter.HasFootnotes

\* ---------------------------------------------------------- verify: claims

\* The number of chapter files of a book that pass validateChapterFile.
PassedCount(osis) ==
  Cardinality({path \in DOMAIN verify.files :
                 /\ validateChapterFile(verify.files[path]) = ""
                 /\ verify.files[path].chapter.OSIS = osis})

\* A chapter-count error is reported for exactly the books outside the
\* exception set whose passed chapters differ in number from the declared count.
CountErrorsAsDeclared ==
  \A i \in 1..Len(BooksData) :
    (BooksData[i].OSIS \in verify.reported.counts) <=>
      /\ BooksData[i].Chapters # PassedCount(BooksData[i].OSIS)
      /\ BooksData[i].OSIS \notin ExceptionSet

\* The verify tool makes the chapter-count check: in a run that reached the
\* book loop, a chapter-count error is reported for exactly the books outside
\* the exception set whose number of passed chapter files differs from the
\* declared count, and each is counted in the run's errors.
VerifyCountsChapters ==
  verify.checked =>
    /\ CountErrorsAsDeclared
    /\ verify.totalErrors =
         Cardinality(verify.reported.chapters) + Cardinality(verify.reported.filemap)
           + Cardinality(verify.reported.counts)
    /\ (verify.ret = "error") <=> (verify.totalErrors > 0)

\* -------------------------------------------------- entity decoder: claims

\* C19 (as the specification states it): ingestion is deterministic whatever
\* order maps are iterated in; for the entity replacement table, two runs over
\* the same text decode it to the same text.
C19_AsStated == Len(decoding.out) = 2 => decoding.out[1] = decoding.out[2]

\* ---------------------------------------------------- run sequence: claims

\* C20 (as the specification states it): the filemap is append-only; after
\* any sequence of ingestion runs every source path an earlier run recorded is
\* still in filemap.json.
C20_AsStated ==
  \A i \in 1..Len(history) :
    \A path \in DOMAIN history[i] : path \in DOMAIN filemapFile

\* --------------------------------------------------------- the mains: claims

\* The command of the tool has returned to main.
CommandReturned == verify.phase = "done" \/ extract.phase = "returned"

\* C30 (as the specification states it): the verify and extract tools always
\* terminate; on every path of a subcommand the stop channel has been closed
\* before main receives from it, so the receive completes and main never
\* blocks.
C30_AsStated ==
  /\ CommandReturned => stop.closes >= 1
  /\ stop.main # "blocked"

====
